---- MODULE Spec2Model ----
(***************************************************************************)
(* Pending-approval workflow of the inventory reorder pipeline:            *)
(* PendingActionsManager (SQLite primary / JSON fallback) and the four     *)
(* approve / reject webhook endpoints of src/webhook/app.py.               *)
(*                                                                         *)
(* Time is counted in hours.  Webhook workers are separate processes that  *)
(* share the store file, so the steps of two handlers may interleave.      *)
(***************************************************************************)
EXTENDS Integers, Sequences, FiniteSets, TLC

(* ------------------------------ bounds --------------------------------- *)
MaxTime == 36
MaxCalls == 2

(* ------------------------- program constants --------------------------- *)
TTL_HOURS == 24
WEBHOOK_SECRET == "good"
STATUS_FORBIDDEN == 403
STATUS_NOT_FOUND == 404
STATUS_SERVER_ERROR == 500
\* status of an HTMLResponse built without status_code
STATUS_OK == 200

Secrets == {"good", "bad"}
Tokens == {"tok1"}
Procs == {"w1", "w2"}
TickSteps == {12, 24}
Terminal == {"approved", "rejected"}
SingleEps == {"approve", "reject"}
BatchEps == {"approve_batch", "reject_batch"}

\* names bound at module level of app.py; the batch endpoints look up
\* "pending_actions", which no statement of the module binds
ModuleGlobals ==
    {"app", "logger", "config", "WEBHOOK_SECRET", "DB_PATH", "JSON_FALLBACK_PATH",
     "pending_manager", "supplier_connector", "notion_connector", "sheets_connector"}

NameResolves(name) == name \in ModuleGlobals

(* ------------------------- timestamps as text -------------------------- *)
\* datetime.isoformat(): fixed-width text, most significant field first
IsoFormat(t) == <<t \div 10, t % 10>>

\* datetime.fromisoformat()
FromIsoFormat(s) == s[1] * 10 + s[2]

\* text comparison a > b as SQLite compares two TEXT values
StrGreater(a, b) ==
    \E i \in 1..Len(a) :
        /\ i <= Len(b) => a[i] > b[i]
        /\ \A j \in 1..(i - 1) : j <= Len(b) /\ a[j] = b[j]

(* --------------------------- action payloads --------------------------- *)
\* a key the dict does not carry: action.get(key) gives None
Absent == "<absent>"

\* "if value:" on a text value or None
Truthy(x) == x \notin {"", Absent}

Item1 == [sku |-> "SKU1", vendor |-> "V1", quantity |-> 5, total_cost |-> 50,
          notion_page_id |-> "pg1"]
Item2 == [sku |-> "SKU2", vendor |-> "V2", quantity |-> 3, total_cost |-> 30,
          notion_page_id |-> ""]
Item3 == [sku |-> "SKU3", vendor |-> "V1", quantity |-> 2, total_cost |-> 20,
          notion_page_id |-> "pg3"]

\* action_data built by _send_approval_email
SingleAction(sku, vendor, qty, cost, page) ==
    [sku |-> sku, action_type |-> "reorder", vendor |-> vendor, quantity |-> qty,
     total_cost |-> cost, notion_page_id |-> page, items |-> <<>>]

RECURSIVE SumField(_, _)
SumField(items, f) ==
    IF items = <<>> THEN 0 ELSE Head(items)[f] + SumField(Tail(items), f)

\* batch_action_data built by _send_batch_approval_email
BatchAction(items) ==
    [sku |-> "BATCH", action_type |-> "batch_reorder", vendor |-> "MULTIPLE",
     quantity |-> SumField(items, "quantity"),
     total_cost |-> SumField(items, "total_cost"),
     notion_page_id |-> Absent, items |-> items]

ActionInputs ==
    { SingleAction("SKU1", "V1", 5, 50, "pg1"),
      BatchAction(<<Item1, Item2>>) }

Skus == {"SKU1", "SKU2", "SKU3", "BATCH"}
Pages == {"pg1", "pg3"}

\* Python None / a falsy lookup result
NoAction ==
    [sku |-> "", action_type |-> "", vendor |-> "", quantity |-> 0, total_cost |-> 0,
     notion_page_id |-> "", items |-> <<>>, expires_at |-> <<>>, status |-> ""]

(* --------------- ReorderPolicy, module src/policies/reorder_policy.py ---- *)
SAFETY_MARGIN_DAYS == 7
MIN_ORDER_QTY == 1
TARGET_STOCK_DAYS == 30
DEFAULT_LEAD_TIME == 7
DEFAULT_REORDER_QUANTITY == 10

\* a numeric dict key that is not there, or a numeric value that is None
Missing == -1
\* 'on_hand' that is there and holds None (an empty cell of the sheet)
NoneValue == -2

\* Python None where a string is expected
PyNone == "<None>"

Max2(a, b) == IF a >= b THEN a ELSE b

\* the transactions cover a trailing window of this many days
WindowDays == 2

\* bounds of the policy inputs
MaxRows == 2
MaxVendors == 2

RECURSIVE MatchingUsage(_, _)
\* total quantity of the rows of transactions that belong to sku
MatchingUsage(transactions, sku) ==
    IF transactions = <<>> THEN 0
    ELSE (IF Head(transactions).sku = sku THEN Head(transactions).quantity ELSE 0)
         + MatchingUsage(Tail(transactions), sku)

\* compute_daily_average: usage per day as the fraction num / den, 0 when no row matches
ComputeDailyAverage(transactions, sku) ==
    [num |-> MatchingUsage(transactions, sku), den |-> WindowDays]

\* estimate_days_until_stockout(on_hand, avg) <= days; the estimate is on_hand / avg,
\* and +infinity, which is below no bound, when avg <= 0
StockoutWithin(on_hand, avg, days) ==
    avg.num > 0 /\ on_hand * avg.den <= days * avg.num

\* int(days_until_stockout), Missing for +infinity
StockoutDays(on_hand, avg) ==
    IF avg.num > 0 THEN (on_hand * avg.den) \div avg.num ELSE Missing

\* float('inf') among day counts held in tenths
Infinity == 1000000

\* round(days_until_stockout, 1) in tenths of a day: the quotient on_hand / avg to
\* the nearest tenth, a tie going to the even tenth (with a whole number of window
\* days and whole quantities every tie is a multiple of 1/4, which a float holds
\* exactly); Infinity when there is no usage
RoundedDays(on_hand, avg) ==
    IF avg.num <= 0 THEN Infinity
    ELSE LET n == 10 * on_hand * avg.den
             q == n \div avg.num
             r == n % avg.num
         IN IF 2 * r < avg.num THEN q
            ELSE IF 2 * r > avg.num THEN q + 1
            ELSE IF q % 2 = 0 THEN q ELSE q + 1

\* best_vendor is None
NoVendor ==
    [name |-> PyNone, price_per_unit |-> Missing, lead_time |-> Missing,
     eoq |-> Missing, total_annual_cost |-> Missing]

\* indices of the vendors that carry 'price_per_unit'
Priced(vendors) == { i \in 1..Len(vendors) : vendors[i].price_per_unit # Missing }

\* the order quantities and yearly costs the optimizer may report for a vendor
EoqValues == {0, 20}
CostValues == {400}

\* select_best_vendor(vendors, annual_demand): the answers it can give. None for
\* zero demand (what lines 98-99 rely on) and when no vendor has a price;
\* otherwise one priced vendor with its eoq and total_annual_cost.
SelectBestVendorAnswers(vendors, avg) ==
    IF avg.num <= 0 \/ Priced(vendors) = {} THEN {NoVendor}
    ELSE { [vendors[i] EXCEPT !.eoq = q, !.total_annual_cost = c] :
              i \in Priced(vendors), q \in EoqValues, c \in CostValues }

\* lines 102-110: the first vendor with the lowest 'price_per_unit', 0 if none has one
FallbackIndex(vendors) ==
    IF Priced(vendors) = {} THEN 0
    ELSE CHOOSE i \in Priced(vendors) :
            \A j \in Priced(vendors) :
               \/ vendors[i].price_per_unit < vendors[j].price_per_unit
               \/ vendors[i].price_per_unit = vendors[j].price_per_unit /\ i <= j

\* lines 112-128: the copy of the fallback vendor with eoq and purchase cost
FallbackVendor(self, inventory_item, vendors) ==
    LET v == vendors[FallbackIndex(vendors)]
        eoq == Max2(self.min_order_qty,
                    IF inventory_item.reorder_quantity = Missing
                    THEN DEFAULT_REORDER_QUANTITY ELSE inventory_item.reorder_quantity)
    IN [v EXCEPT !.eoq = eoq, !.total_annual_cost = eoq * v.price_per_unit]

EvidenceSummary_LeadTimeOnly(self, on_hand, avg, best_vendor, needs_reorder) ==
    LET lead_time == IF best_vendor.lead_time = Missing THEN DEFAULT_LEAD_TIME
                     ELSE best_vendor.lead_time
    IN IF needs_reorder
       THEN IF StockoutWithin(on_hand, avg, self.safety_margin_days)
            THEN "URGENT PRIORITY"
            ELSE IF StockoutWithin(on_hand, avg, lead_time)
                 THEN "HIGH PRIORITY"
                 ELSE "MEDIUM PRIORITY"
       ELSE "NO ACTION NEEDED"

\* _generate_evidence_summary: the opening words of the summary
EvidenceSummary(self, on_hand, avg, best_vendor, needs_reorder) ==
    LET lead_time == IF best_vendor.lead_time = Missing THEN DEFAULT_LEAD_TIME
                     ELSE best_vendor.lead_time
    IN IF needs_reorder
       THEN IF StockoutWithin(on_hand, avg, self.safety_margin_days)
            THEN "URGENT PRIORITY"
            ELSE IF StockoutWithin(on_hand, avg, lead_time + self.safety_margin_days)
                 THEN "HIGH PRIORITY"
                 ELSE "MEDIUM PRIORITY"
       ELSE "NO ACTION NEEDED"

\* raise ValueError("No vendors provided for evaluation"), re-raised at line 235
Raised ==
    [raised |-> TRUE, sku |-> "", needs_reorder |-> FALSE, vendor |-> PyNone, qty |-> 0,
     eoq |-> 0, total_cost |-> 0, stockout_date |-> Missing, evidence_summary |-> "",
     days_until_stockout |-> Missing]

\* lines 133-144
NoVendorDecision(sku) ==
    [raised |-> FALSE, sku |-> sku, needs_reorder |-> FALSE, vendor |-> PyNone, qty |-> 0,
     eoq |-> 0, total_cost |-> 0, stockout_date |-> Missing,
     evidence_summary |-> "No valid vendors available",
     days_until_stockout |-> Missing]

NoVendors_NeverRaises(vendors) == FALSE

\* line 93: if not vendors
NoVendors(vendors) == vendors = <<>>

VendorsAfterFallback_InPlace(vendors, i, updated) == [vendors EXCEPT ![i] = updated]

\* line 110: fallback_vendor = vendor.copy(), so the update of lines 119-127 stays
\* in the copy and the caller's list is as it was
VendorsAfterFallback(vendors, i, updated) == vendors

NeedsReorder_TimeBasedAlways(self, on_hand, reorder_point, avg_daily, best_vendor) ==
    LET lead_time == IF best_vendor.lead_time = Missing THEN DEFAULT_LEAD_TIME
                     ELSE best_vendor.lead_time
    IN \/ on_hand <= lead_time + self.safety_margin_days
       \/ on_hand <= reorder_point

\* lines 167-179
NeedsReorder(self, on_hand, reorder_point, avg_daily, best_vendor) ==
    LET lead_time == IF best_vendor.lead_time = Missing THEN DEFAULT_LEAD_TIME
                     ELSE best_vendor.lead_time
    IN IF avg_daily.num <= 0 THEN on_hand <= reorder_point
       ELSE \/ StockoutWithin(on_hand, avg_daily, lead_time + self.safety_margin_days)
            \/ on_hand <= reorder_point

RecommendedQty_NoMinimum(self, needs_reorder, eoq, avg_daily, on_hand) ==
    LET target_stock == (avg_daily.num * TARGET_STOCK_DAYS) \div avg_daily.den
        qty_to_target == Max2(0, target_stock - on_hand)
    IN IF needs_reorder THEN Max2(eoq, qty_to_target)
       ELSE 0

\* lines 182-190
RecommendedQty(self, needs_reorder, eoq, avg_daily, on_hand) ==
    LET target_stock == (avg_daily.num * TARGET_STOCK_DAYS) \div avg_daily.den
        qty_to_target == Max2(0, target_stock - on_hand)
    IN IF needs_reorder THEN Max2(eoq, Max2(self.min_order_qty, qty_to_target))
       ELSE 0

\* a record whose evaluation ends in the except branch (lines 233-235), which
\* re-raises: inventory_item['on_hand'] on a record without the key (line 77);
\* None <= reorder_point in the zero-demand test (line 99), and on_hand / avg in
\* the stockout estimate once a vendor is chosen (line 152)
ItemRaises(inventory_item, avg_daily, selected) ==
    \/ inventory_item.on_hand = Missing
    \/ /\ inventory_item.on_hand = NoneValue
       /\ ~(avg_daily.num > 0 /\ selected = NoVendor)

\* evaluate_reorder_need(inventory_item, transactions, vendors, target_stock_days);
\* selected is the answer of select_best_vendor, today the day of datetime.now().
\* Returns the decision and the vendor list as the call leaves it.
EvaluateReorderNeed(self, inventory_item, transactions, vendors, selected, today) ==
    LET sku == inventory_item.sku
        on_hand == inventory_item.on_hand
        reorder_point == inventory_item.reorder_point
        avg_daily == ComputeDailyAverage(transactions, sku)
        fallback == /\ selected = NoVendor
                    /\ avg_daily.num <= 0
                    /\ on_hand <= reorder_point
                    /\ FallbackIndex(vendors) # 0
        best_vendor == IF fallback THEN FallbackVendor(self, inventory_item, vendors)
                       ELSE selected
        days == StockoutDays(on_hand, avg_daily)
        needs_reorder == NeedsReorder(self, on_hand, reorder_point, avg_daily, best_vendor)
        eoq == IF best_vendor.eoq = Missing THEN 0 ELSE best_vendor.eoq
    IN IF ItemRaises(inventory_item, avg_daily, selected) \/ NoVendors(vendors)
       THEN [vendors |-> vendors, result |-> Raised]
       ELSE [vendors |-> IF fallback
                         THEN VendorsAfterFallback(vendors, FallbackIndex(vendors), best_vendor)
                         ELSE vendors,
             result |->
               IF best_vendor = NoVendor THEN NoVendorDecision(sku)
               ELSE [raised |-> FALSE, sku |-> sku, needs_reorder |-> needs_reorder,
                     vendor |-> best_vendor.name,
                     qty |-> RecommendedQty(self, needs_reorder, eoq, avg_daily, on_hand),
                     eoq |-> eoq,
                     total_cost |-> IF best_vendor.total_annual_cost = Missing THEN 0
                                    ELSE best_vendor.total_annual_cost,
                     stockout_date |-> IF days = Missing THEN Missing ELSE today + days,
                     evidence_summary |->
                        EvidenceSummary(self, on_hand, avg_daily, best_vendor, needs_reorder),
                     days_until_stockout |-> RoundedDays(on_hand, avg_daily)]]

\* ReorderPolicy(): safety_margin_days = 7, min_order_qty = 1
DefaultPolicy == [safety_margin_days |-> SAFETY_MARGIN_DAYS, min_order_qty |-> MIN_ORDER_QTY]

\* no policy call under way
PolicyIdle ==
    [self |-> DefaultPolicy,
     inventory_item |-> [sku |-> "", on_hand |-> 0, reorder_point |-> 0,
                         reorder_quantity |-> Missing],
     transactions |-> <<>>, vendors |-> <<>>, selected |-> NoVendor, results |-> <<>>,
     inventory_items |-> <<>>, selections |-> <<>>, pending |-> FALSE]

\* no cycle under way
CycleIdle ==
    [dry_run |-> FALSE, auto_order_threshold |-> 0, vendor_trust_threshold |-> 0,
     inventory |-> <<>>, i |-> 0, decisions |-> <<>>, auto |-> {},
     pending_approvals |-> <<>>, batch |-> <<>>, stored |-> FALSE, errors |-> <<>>,
     processed_skus |-> 0, approval_emails_sent |-> 0, batch_approvals_pending |-> 0,
     emails |-> <<>>, pc |-> "done"]

(* ------------------------------- state --------------------------------- *)
VARIABLES
    use_sqlite,    \* PendingActionsManager.use_sqlite
    store,         \* token -> stored record (table pending_actions / JSON document)
    now,           \* wall clock, hours
    proc,          \* per worker: position and locals of the handler it runs
    orders,        \* orders the supplier accepted, in order of placement
    pageStatus,    \* external page id -> status written
    sheetStatus,   \* SKU -> status written to the sheet
    recompute,     \* demo/recompute_tasks.json
    calls,         \* endpoint calls started so far
    orderFailures, \* token -> place_order calls of /webhook/approve that gave no order
    backends,      \* one manager per backend, driven with the same calls and clock
    policy,        \* a ReorderPolicy object, the inputs of its calls and their results
    cycle          \* InventoryAgent.run_cycle: configuration, position and locals

vars == <<use_sqlite, store, now, proc, orders, pageStatus, sheetStatus, recompute, calls,
          orderFailures, backends, policy, cycle>>

(* --------------------------- PendingActionsManager --------------------- *)
\* store_pending_action: the row / document entry written for (token, action_data)
StoredRecord(sqlite, action_data, nowv) ==
    [sku |-> action_data.sku,
     action_type |-> action_data.action_type,
     vendor |-> action_data.vendor,
     quantity |-> action_data.quantity,
     total_cost |-> action_data.total_cost,
     notion_page_id |-> IF sqlite /\ action_data.notion_page_id = Absent THEN ""
                        ELSE action_data.notion_page_id,
     items |-> IF sqlite THEN <<>> ELSE action_data.items,
     expires_at |-> IsoFormat(nowv + TTL_HOURS),
     status |-> "pending"]

\* text columns read as action_data[...]: a missing key raises KeyError, which
\* the except branch of store_pending_action turns into the result False
\* (quantity and total_cost are read the same way; every payload here has them)
RequiredColumns == {"sku", "action_type", "vendor"}

\* the JSON branch copies whatever action_data holds
StoreAccepts(sqlite, action_data) ==
    sqlite => \A f \in RequiredColumns : action_data[f] # Absent

StorePendingAction_InsertOrIgnore(st, sqlite, token, action_data, nowv) ==
    IF StoreAccepts(sqlite, action_data)
    THEN [ok |-> TRUE, st |-> st @@ (token :> StoredRecord(sqlite, action_data, nowv))]
    ELSE [ok |-> FALSE, st |-> st]

\* store_pending_action: INSERT OR REPLACE / data[token] = {...}; result and store
StorePendingAction(st, sqlite, token, action_data, nowv) ==
    IF StoreAccepts(sqlite, action_data)
    THEN [ok |-> TRUE, st |-> (token :> StoredRecord(sqlite, action_data, nowv)) @@ st]
    ELSE [ok |-> FALSE, st |-> st]

NotExpired_Inclusive(sqlite, expires_at, nowv) ==
    IF sqlite THEN expires_at = IsoFormat(nowv) \/ StrGreater(expires_at, IsoFormat(nowv))
    ELSE FromIsoFormat(expires_at) >= nowv

\* the expiry test of get_pending_action on either backend
NotExpired(sqlite, expires_at, nowv) ==
    IF sqlite THEN StrGreater(expires_at, IsoFormat(nowv))
    ELSE FromIsoFormat(expires_at) > nowv

\* get_pending_action; readOk = FALSE is the except branch
GetPendingAction(st, sqlite, token, nowv, readOk) ==
    IF ~readOk THEN NoAction
    ELSE IF /\ token \in DOMAIN st
            /\ st[token].status = "pending"
            /\ NotExpired(sqlite, st[token].expires_at, nowv)
         THEN st[token]
         ELSE NoAction

UpdateActionStatus_ReplacesRow(st, token, status, writeOk) ==
    IF writeOk /\ token \in DOMAIN st
    THEN [st EXCEPT ![token] = [NoAction EXCEPT !.status = status]]
    ELSE st

\* update_action_status; writeOk = FALSE is the except branch
UpdateActionStatus(st, token, status, writeOk) ==
    IF writeOk /\ token \in DOMAIN st
    THEN [st EXCEPT ![token].status = status]
    ELSE st

(* ------------------------------ workers -------------------------------- *)
IdleProc ==
    [pc |-> "idle", ep |-> "", tok |-> "", sec |-> "", act |-> NoAction, oid |-> "",
     out |-> "", trace |-> <<>>, approved |-> <<>>, failed |-> <<>>, data |-> <<>>,
     status |-> ""]

\* locals of a handler that has just been entered
NewCall(ep, t, s) ==
    [IdleProc EXCEPT !.ep = ep, !.tok = t, !.sec = s]

Done_ErrorsEscape(w, outcome) ==
    IF outcome = "error" THEN [w EXCEPT !.pc = "crashed"]
    ELSE [w EXCEPT !.pc = "done", !.out = outcome, !.act = NoAction, !.oid = ""]

\* the handler returns its response; its locals die with it
Done(w, outcome) ==
    [w EXCEPT !.pc = "done", !.out = outcome, !.act = NoAction, !.oid = ""]

Step(w, tag) == [w EXCEPT !.trace = Append(@, tag)]

CanCall(p) == proc[p].pc \in {"idle", "done"} /\ calls < MaxCalls

SecretOk_NoCheck(s) == TRUE

\* secret != WEBHOOK_SECRET
SecretOk(s) == s = WEBHOOK_SECRET

\* both managers empty, no call made yet
BackendsInit ==
    [sq |-> <<>>, js |-> <<>>, op |-> "", tok |-> "", had |-> "", arg |-> "",
     rsq |-> FALSE, rjs |-> FALSE]

Init ==
    /\ use_sqlite \in BOOLEAN
    /\ store = <<>>
    /\ now = 0
    /\ proc = [p \in Procs |-> IdleProc]
    /\ orders = <<>>
    /\ pageStatus = [pg \in Pages |-> ""]
    /\ sheetStatus = [k \in Skus |-> ""]
    /\ recompute = <<>>
    /\ calls = 0
    /\ orderFailures = [t \in Tokens |-> 0]
    /\ backends = BackendsInit
    /\ policy = PolicyIdle
    /\ cycle = CycleIdle

(* the clock advances *)
Tick(d) ==
    /\ now + d <= MaxTime
    /\ now' = now + d
    /\ UNCHANGED <<use_sqlite, store, proc, orders, pageStatus, sheetStatus, recompute, calls, orderFailures, backends, policy, cycle>>

(* store_pending_approval, called by the orchestrator with a fresh uuid4 token *)
StorePending(t, a) ==
    /\ t \notin DOMAIN store
    /\ store' = StorePendingAction(store, use_sqlite, t, a, now).st
    /\ UNCHANGED <<use_sqlite, now, proc, orders, pageStatus, sheetStatus, recompute, calls, orderFailures, backends, policy, cycle>>


(* ------------------- single-item approve: /webhook/approve ------------- *)
\* results of SupplierConnector.place_order as its callers tell them apart:
\* a result carrying an order, a result carrying an error, an exception
PlaceOrderOutcomes == {"ok", "error", "raise"}

\* what a handler notes of a place_order call
OrderTag == [ok |-> "order_ok", error |-> "order_error", raise |-> "order_raise"]

\* first step after a successful lookup / after the order was placed
AfterLookup(ep, a) ==
    IF ep = "approve" THEN "order"
    ELSE IF Truthy(a.notion_page_id) THEN "page" ELSE "sheet"

\* entry of approve_action / reject_action: the secret check
EnterSingle(p, ep, t, s) ==
    /\ calls' = calls + 1
    /\ proc' = [proc EXCEPT ![p] =
                  IF SecretOk(s) THEN [NewCall(ep, t, s) EXCEPT !.pc = "fetch"]
                  ELSE Done(NewCall(ep, t, s), "forbidden")]
    /\ UNCHANGED <<use_sqlite, store, now, orders, pageStatus, sheetStatus, recompute, orderFailures, backends, policy, cycle>>

ApproveCall(p, t, s) == CanCall(p) /\ EnterSingle(p, "approve", t, s)

RejectCall(p, t, s) == CanCall(p) /\ EnterSingle(p, "reject", t, s)

Fetch_ClaimsToken(p) ==
    /\ proc[p].pc = "fetch"
    /\ \E readOk \in BOOLEAN :
         LET a == GetPendingAction(store, use_sqlite, proc[p].tok, now, readOk)
             w == Step(proc[p], "get")
         IN /\ proc' = [proc EXCEPT ![p] =
                          IF a = NoAction THEN Done(w, "not_found")
                          ELSE [w EXCEPT !.act = a, !.pc = AfterLookup(proc[p].ep, a)]]
            /\ store' = IF a = NoAction THEN store
                        ELSE [store EXCEPT ![proc[p].tok].status = "processing"]
    /\ UNCHANGED <<use_sqlite, now, orders, pageStatus, sheetStatus, recompute, calls, orderFailures, backends, policy, cycle>>

\* action = pending_manager.get_pending_action(token); if not action: 404
Fetch(p) ==
    /\ proc[p].pc = "fetch"
    /\ \E readOk \in BOOLEAN :
         LET a == GetPendingAction(store, use_sqlite, proc[p].tok, now, readOk)
             w == Step(proc[p], "get")
         IN proc' = [proc EXCEPT ![p] =
                       IF a = NoAction THEN Done(w, "not_found")
                       ELSE [w EXCEPT !.act = a, !.pc = AfterLookup(proc[p].ep, a)]]
    /\ UNCHANGED <<use_sqlite, store, now, orders, pageStatus, sheetStatus, recompute, calls, orderFailures, backends, policy, cycle>>

PlaceOrder_RaiseConsumes(p) ==
    /\ proc[p].pc = "order"
    /\ \E o \in PlaceOrderOutcomes :
         LET w == Step(proc[p], OrderTag[o])
             a == proc[p].act
             nxt == IF Truthy(a.notion_page_id) THEN "page" ELSE "sheet"
             failed == [orderFailures EXCEPT ![proc[p].tok] = @ + 1]
         IN CASE o = "raise" ->
                   /\ proc' = [proc EXCEPT ![p] = Done(w, "error")]
                   /\ orders' = orders
                   /\ orderFailures' = failed
                   /\ store' = [store EXCEPT ![proc[p].tok].status = "failed"]
              [] o = "ok" ->
                   /\ proc' = [proc EXCEPT ![p] = [w EXCEPT !.pc = nxt, !.oid = "ORD"]]
                   /\ orders' = Append(orders, [vendor |-> a.vendor, sku |-> a.sku,
                                                qty |-> a.quantity, tok |-> proc[p].tok])
                   /\ orderFailures' = orderFailures
                   /\ store' = store
              [] o = "error" ->
                   /\ proc' = [proc EXCEPT ![p] = [w EXCEPT !.pc = nxt, !.oid = "N/A"]]
                   /\ orders' = orders
                   /\ orderFailures' = failed
                   /\ store' = store
    /\ UNCHANGED <<use_sqlite, now, pageStatus, sheetStatus, recompute, calls, backends, policy, cycle>>

\* 1. supplier_connector.place_order(vendor_id, sku, qty);
\*    order_id = order_result.get('order_id', 'N/A')
PlaceOrder(p) ==
    /\ proc[p].pc = "order"
    /\ \E o \in PlaceOrderOutcomes :
         LET w == Step(proc[p], OrderTag[o])
             a == proc[p].act
             nxt == IF Truthy(a.notion_page_id) THEN "page" ELSE "sheet"
             failed == [orderFailures EXCEPT ![proc[p].tok] = @ + 1]
         IN CASE o = "raise" ->
                   /\ proc' = [proc EXCEPT ![p] = Done(w, "error")]
                   /\ orders' = orders
                   /\ orderFailures' = failed
              [] o = "ok" ->
                   /\ proc' = [proc EXCEPT ![p] = [w EXCEPT !.pc = nxt, !.oid = "ORD"]]
                   /\ orders' = Append(orders, [vendor |-> a.vendor, sku |-> a.sku,
                                                qty |-> a.quantity, tok |-> proc[p].tok])
                   /\ orderFailures' = orderFailures
              [] o = "error" ->
                   /\ proc' = [proc EXCEPT ![p] = [w EXCEPT !.pc = nxt, !.oid = "N/A"]]
                   /\ orders' = orders
                   /\ orderFailures' = failed
    /\ UNCHANGED <<use_sqlite, store, now, pageStatus, sheetStatus, recompute, calls, backends, policy, cycle>>

\* 2. notion_connector.update_page_properties(...): ComposioNotionConnector has
\*    no such method, the AttributeError is caught and logged
UpdatePage(p) ==
    /\ proc[p].pc = "page"
    /\ proc' = [proc EXCEPT ![p] = [Step(@, "update_page_failed") EXCEPT !.pc = "sheet"]]
    /\ UNCHANGED <<use_sqlite, store, now, orders, pageStatus, sheetStatus, recompute, calls, orderFailures, backends, policy, cycle>>

UpdateSheet_FailureAborts(p) ==
    /\ proc[p].pc = "sheet"
    /\ \E ok \in BOOLEAN :
         /\ proc' = [proc EXCEPT ![p] =
                       IF ok THEN [Step(@, "update_sheet") EXCEPT !.pc = "status"]
                       ELSE Done(Step(@, "update_sheet_failed"), "error")]
         /\ sheetStatus' =
               IF ok THEN [sheetStatus EXCEPT ![proc[p].act.sku] =
                              IF proc[p].ep = "approve" THEN "Ordered" ELSE "Rejected"]
               ELSE sheetStatus
    /\ UNCHANGED <<use_sqlite, store, now, orders, pageStatus, recompute, calls, orderFailures, backends, policy, cycle>>

\* 3. sheets_connector.update_inventory_status(...), failure caught and logged
UpdateSheet(p) ==
    /\ proc[p].pc = "sheet"
    /\ \E ok \in BOOLEAN :
         /\ proc' = [proc EXCEPT ![p] =
                       [Step(@, IF ok THEN "update_sheet" ELSE "update_sheet_failed")
                          EXCEPT !.pc = "status"]]
         /\ sheetStatus' =
               IF ok THEN [sheetStatus EXCEPT ![proc[p].act.sku] =
                              IF proc[p].ep = "approve" THEN "Ordered" ELSE "Rejected"]
               ELSE sheetStatus
    /\ UNCHANGED <<use_sqlite, store, now, orders, pageStatus, recompute, calls, orderFailures, backends, policy, cycle>>

\* 4. pending_manager.update_action_status(token, "approved" | "rejected"),
\*    return value not looked at
Transition(p) ==
    /\ proc[p].pc = "status"
    /\ \E writeOk \in BOOLEAN :
         store' = UpdateActionStatus(store, proc[p].tok,
                     IF proc[p].ep = "approve" THEN "approved" ELSE "rejected", writeOk)
    /\ proc' = [proc EXCEPT ![p] =
                  IF proc[p].ep = "approve" THEN Done(Step(@, "update_status"), "success")
                  ELSE [Step(@, "update_status") EXCEPT !.pc = "recompute"]]
    /\ UNCHANGED <<use_sqlite, now, orders, pageStatus, sheetStatus, recompute, calls, orderFailures, backends, policy, cycle>>

\* reject 4.: append the recompute task to demo/recompute_tasks.json, failure logged
Recompute(p) ==
    /\ proc[p].pc = "recompute"
    /\ \E ok \in BOOLEAN :
         recompute' =
            IF ok THEN Append(recompute, [sku |-> proc[p].act.sku,
                                          original_vendor |-> proc[p].act.vendor,
                                          original_quantity |-> proc[p].act.quantity])
            ELSE recompute
    /\ proc' = [proc EXCEPT ![p] = Done(Step(@, "recompute"), "success")]
    /\ UNCHANGED <<use_sqlite, store, now, orders, pageStatus, sheetStatus, calls, orderFailures, backends, policy, cycle>>


(* --------------- batch endpoints: /webhook/approve-batch, reject-batch -- *)
\* what the collaborators do for one line item: place_order as above;
\* update_reorder_status returns True / False and never raises;
\* sheets update_inventory_status returns or raises
ItemOutcomes ==
    [order : PlaceOrderOutcomes, page : BOOLEAN, sheet : {"ok", "raise"}]

LoopStart(pages, sheets) ==
    [approved |-> <<>>, failed |-> <<>>, rejected |-> <<>>, orders |-> <<>>,
     pages |-> pages, sheets |-> sheets]

UpdateItemPage(pages, item, ok, status) ==
    IF Truthy(item.notion_page_id) /\ ok
    THEN [pages EXCEPT ![item.notion_page_id] = status]
    ELSE pages

\* one pass of the body of "for item in action.get('items', [])" in approve_batch_action
ApproveItem(acc, item, o, token) ==
    IF o.order = "ok"
    THEN LET placed == [acc EXCEPT
                          !.orders = Append(@, [vendor |-> item.vendor, sku |-> item.sku,
                                                qty |-> item.quantity, tok |-> token]),
                          !.pages = UpdateItemPage(@, item, o.page, "ordered")]
         IN IF o.sheet = "raise"
            THEN [placed EXCEPT !.failed = Append(@, item.sku)]
            ELSE [placed EXCEPT !.sheets = [@ EXCEPT ![item.sku] = "ordered"],
                                !.approved = Append(@, item.sku)]
    ELSE [acc EXCEPT !.failed = Append(@, item.sku)]

\* one pass of the body of the loop in reject_batch_action
RejectItem(acc, item, o) ==
    LET paged == [acc EXCEPT !.pages = UpdateItemPage(@, item, o.page, "rejected")]
    IN IF o.sheet = "raise"
       THEN paged
       ELSE [paged EXCEPT !.sheets = [@ EXCEPT ![item.sku] = "rejected"],
                          !.rejected = Append(@, item.sku)]

RECURSIVE BatchItemsLoop(_, _, _, _, _, _)
BatchItemsLoop(ep, items, outs, i, acc, token) ==
    IF i > Len(items) THEN acc
    ELSE BatchItemsLoop(ep, items, outs, i + 1,
            IF ep = "approve_batch" THEN ApproveItem(acc, items[i], outs[i], token)
            ELSE RejectItem(acc, items[i], outs[i]),
            token)

BatchGate_Unguarded(a) ==
    IF a = NoAction THEN "not_found" ELSE "proceed"

\* the lookup of the batch handlers up to the start of the loop:
\* pending_actions.get_pending_action(token) inside try / except Exception,
\* "if not action", "if action.get('action_type') != 'batch_reorder'"
BatchGate(a) ==
    IF ~NameResolves("pending_actions") THEN "error"
    ELSE IF a = NoAction THEN "not_found"
    ELSE IF a.action_type # "batch_reorder" THEN "invalid_type"
    ELSE "proceed"

\* the handler from the loop on: every line item, then update_action_status
BatchBody(p, w0, ep, t, a) ==
    \E outs \in [1..Len(a.items) -> ItemOutcomes], writeOk \in BOOLEAN :
      LET r == BatchItemsLoop(ep, a.items, outs, 1,
                              LoopStart(pageStatus, sheetStatus), t)
      IN /\ proc' = [proc EXCEPT ![p] =
                       Done([Step(Step(w0, "get"), "update_status") EXCEPT
                                !.approved = r.approved,
                                !.failed = r.failed], "success")]
         /\ orders' = orders \o r.orders
         /\ pageStatus' = r.pages
         /\ sheetStatus' = r.sheets
         /\ store' = UpdateActionStatus(store, t,
                        IF ep = "approve_batch" THEN "approved" ELSE "rejected",
                        writeOk)

\* the whole handler; it has no await and every failure ends in its except branch
BatchHandler(p, ep, t, s) ==
    /\ calls' = calls + 1
    /\ LET w0 == NewCall(ep, t, s)
       IN IF ~SecretOk(s)
          THEN /\ proc' = [proc EXCEPT ![p] = Done(w0, "invalid_secret")]
               /\ UNCHANGED <<store, orders, pageStatus, sheetStatus>>
          ELSE IF BatchGate(NoAction) = "error"
          THEN /\ proc' = [proc EXCEPT ![p] = Done(w0, "error")]
               /\ UNCHANGED <<store, orders, pageStatus, sheetStatus>>
          ELSE \E readOk \in BOOLEAN :
            LET a == GetPendingAction(store, use_sqlite, t, now, readOk)
                gate == BatchGate(a)
            IN IF gate # "proceed"
            THEN /\ proc' = [proc EXCEPT ![p] = Done(Step(w0, "get"), gate)]
                 /\ UNCHANGED <<store, orders, pageStatus, sheetStatus>>
            ELSE BatchBody(p, w0, ep, t, a)
    /\ UNCHANGED <<use_sqlite, now, recompute, orderFailures, backends, policy, cycle>>

BatchCall(p, ep, t, s) == CanCall(p) /\ BatchHandler(p, ep, t, s)

ApproveBatch(p, t, s) == BatchCall(p, "approve_batch", t, s)

RejectBatch(p, t, s) == BatchCall(p, "reject_batch", t, s)

\* status code of the response a handler returns: HTTPException(403),
\* HTMLResponse(..., status_code=404 | 500) and the default 200 on the single
\* endpoints; the batch endpoints return the page text alone, so the route's
\* HTMLResponse class answers with its default status
HttpStatus(ep, out) ==
    IF ep \in SingleEps
    THEN CASE out = "forbidden" -> STATUS_FORBIDDEN
           [] out = "not_found" -> STATUS_NOT_FOUND
           [] out = "error" -> STATUS_SERVER_ERROR
           [] OTHER -> STATUS_OK
    ELSE STATUS_OK

(* --------------------------- specification ----------------------------- *)
Next ==
    \/ \E d \in TickSteps : Tick(d)
    \/ \E t \in Tokens, a \in ActionInputs : StorePending(t, a)
    \/ \E p \in Procs, t \in Tokens, s \in Secrets : ApproveCall(p, t, s)
    \/ \E p \in Procs, t \in Tokens, s \in Secrets : RejectCall(p, t, s)
    \/ \E p \in Procs, t \in Tokens, s \in Secrets : ApproveBatch(p, t, s)
    \/ \E p \in Procs, t \in Tokens, s \in Secrets : RejectBatch(p, t, s)
    \/ \E p \in Procs : Fetch(p)
    \/ \E p \in Procs : PlaceOrder(p)
    \/ \E p \in Procs : UpdatePage(p)
    \/ \E p \in Procs : UpdateSheet(p)
    \/ \E p \in Procs : Transition(p)
    \/ \E p \in Procs : Recompute(p)

Spec == Init /\ [][Next]_vars

TypeOK ==
    /\ use_sqlite \in BOOLEAN
    /\ DOMAIN store \subseteq Tokens
    /\ now \in 0..MaxTime
    /\ calls \in Nat
    /\ \A p \in Procs : proc[p].pc \in
          {"idle", "fetch", "order", "page", "sheet", "status", "recompute", "done"}


(* ---------- the batch loop on its own, run on bounded inputs ------------ *)
MaxItems == 3

BatchItemLists ==
    { l \in UNION { [1..n -> {Item1, Item2, Item3}] : n \in 0..MaxItems } :
        \A i, j \in 1..Len(l) : i # j => l[i].sku # l[j].sku }

LoopInit ==
    /\ use_sqlite \in BOOLEAN
    /\ \E items \in BatchItemLists :
         store = ("tok1" :> StoredRecord(use_sqlite, BatchAction(items), 0))
    /\ now = 0
    /\ proc = [p \in Procs |-> IdleProc]
    /\ orders = <<>>
    /\ pageStatus = [pg \in Pages |-> ""]
    /\ sheetStatus = [k \in Skus |-> ""]
    /\ recompute = <<>>
    /\ calls = 0
    /\ orderFailures = [t \in Tokens |-> 0]
    /\ backends = BackendsInit
    /\ policy = PolicyIdle
    /\ cycle = CycleIdle

\* lines 543-602 / 698-734 applied to an action the lookup returned
RunBatchBody(p, ep, t) ==
    /\ calls = 0
    /\ calls' = calls + 1
    /\ LET a == GetPendingAction(store, use_sqlite, t, now, TRUE)
       IN /\ a # NoAction
          /\ a.action_type = "batch_reorder"
          /\ BatchBody(p, NewCall(ep, t, WEBHOOK_SECRET), ep, t, a)
    /\ UNCHANGED <<use_sqlite, now, recompute, orderFailures, backends, policy, cycle>>

LoopNext ==
    \E p \in Procs, ep \in {"approve_batch", "reject_batch"}, t \in Tokens :
        RunBatchBody(p, ep, t)

LoopSpec == LoopInit /\ [][LoopNext]_vars


(* ------ PendingActionsManager on its own, both backends side by side ---- *)
ManagerTokens == {"tok1", "tok2"}

\* an action_data without the 'vendor' key
SingleActionNoVendor ==
    [SingleAction("SKU1", "V1", 5, 50, "pg1") EXCEPT !.vendor = Absent]

ManagerInputs == ActionInputs \cup {SingleActionNoVendor}

\* status of the record of t before a store, "" when there is none
StatusBefore(st, t) == IF t \in DOMAIN st THEN st[t].status ELSE ""

ManagerStore(t, a) ==
    LET sq == StorePendingAction(backends.sq, TRUE, t, a, now)
        js == StorePendingAction(backends.js, FALSE, t, a, now)
    IN /\ backends' = [sq |-> sq.st, js |-> js.st, op |-> "store", tok |-> t,
                       had |-> StatusBefore(backends.js, t), arg |-> "",
                       rsq |-> sq.ok, rjs |-> js.ok]
       /\ UNCHANGED <<use_sqlite, store, now, proc, orders, pageStatus, sheetStatus,
                      recompute, calls, orderFailures, policy, cycle>>

ManagerGet(t) ==
    /\ backends' = [backends EXCEPT
                      !.op = "get", !.tok = t, !.had = "", !.arg = "",
                      !.rsq = GetPendingAction(backends.sq, TRUE, t, now, TRUE),
                      !.rjs = GetPendingAction(backends.js, FALSE, t, now, TRUE)]
    /\ UNCHANGED <<use_sqlite, store, now, proc, orders, pageStatus, sheetStatus,
                   recompute, calls, orderFailures, policy, cycle>>

\* variant: the status is written only over a record that is still pending
ManagerUpdate_PendingOnly(t, status) ==
    /\ backends' = [backends EXCEPT
                      !.sq = IF StatusBefore(@, t) = "pending"
                             THEN UpdateActionStatus(@, t, status, TRUE) ELSE @,
                      !.js = IF StatusBefore(@, t) = "pending"
                             THEN UpdateActionStatus(@, t, status, TRUE) ELSE @,
                      !.op = "update", !.tok = t, !.had = "", !.arg = status,
                      !.rsq = TRUE, !.rjs = TRUE]
    /\ UNCHANGED <<use_sqlite, store, now, proc, orders, pageStatus, sheetStatus,
                   recompute, calls, orderFailures, policy, cycle>>

\* update_action_status returns True also when no record has the token
ManagerUpdate(t, status) ==
    /\ backends' = [backends EXCEPT
                      !.sq = UpdateActionStatus(@, t, status, TRUE),
                      !.js = UpdateActionStatus(@, t, status, TRUE),
                      !.op = "update", !.tok = t, !.had = "", !.arg = status,
                      !.rsq = TRUE, !.rjs = TRUE]
    /\ UNCHANGED <<use_sqlite, store, now, proc, orders, pageStatus, sheetStatus,
                   recompute, calls, orderFailures, policy, cycle>>

ManagerNext ==
    \/ Tick(TTL_HOURS)
    \/ \E t \in ManagerTokens, a \in ManagerInputs : ManagerStore(t, a)
    \/ \E t \in ManagerTokens : ManagerGet(t)
    \/ \E t \in ManagerTokens, status \in Terminal : ManagerUpdate(t, status)

\* the two managers under test do not depend on the manager of the webhook app
ManagerInit == Init /\ use_sqlite

ManagerSpec == ManagerInit /\ [][ManagerNext]_vars


(* ----------------- one worker serving calls one after another ---------- *)
MaxAttempts == 3

SeqCanCall == proc["w1"].pc \in {"idle", "done"} /\ calls < MaxAttempts

SeqSingleCall(ep, t, s) == SeqCanCall /\ EnterSingle("w1", ep, t, s)

SeqBatchCall(ep, t, s) == SeqCanCall /\ BatchHandler("w1", ep, t, s)

\* the statements of a handler that has been entered
HandlerStep(p) ==
    \/ Fetch(p)
    \/ PlaceOrder(p)
    \/ UpdatePage(p)
    \/ UpdateSheet(p)
    \/ Transition(p)
    \/ Recompute(p)

SeqNext ==
    \/ \E d \in TickSteps : Tick(d)
    \/ \E t \in Tokens, a \in ActionInputs : StorePending(t, a)
    \/ \E ep \in SingleEps, t \in Tokens, s \in Secrets : SeqSingleCall(ep, t, s)
    \/ \E ep \in BatchEps, t \in Tokens, s \in Secrets : SeqBatchCall(ep, t, s)
    \/ HandlerStep("w1")

SeqSpec == Init /\ [][SeqNext]_vars

\* a handler that was entered runs on: the event loop keeps scheduling it and
\* every statement of it returns or raises
FairSeqSpec == SeqSpec /\ WF_vars(HandlerStep("w1"))


(* ======================= properties of the workflow ==================== *)

InTrace(w, tag) == \E i \in 1..Len(w.trace) : w.trace[i] = tag

\* t is stored, pending and not yet expired
Active(t) ==
    /\ t \in DOMAIN store
    /\ store[t].status = "pending"
    /\ FromIsoFormat(store[t].expires_at) > now

\* this step is worker p's lookup in a single-item handler
SingleLookupStep(p) == proc[p].pc = "fetch" /\ proc'[p].pc # "fetch"

\* this step is a call of a batch endpoint served by worker p
BatchStep(p) ==
    /\ calls' = calls + 1
    /\ proc'[p].pc = "done"
    /\ proc'[p].ep \in BatchEps
    /\ \A q \in Procs \ {p} : proc'[q] = proc[q]

NoSideEffects ==
    /\ store' = store
    /\ orders' = orders
    /\ pageStatus' = pageStatus
    /\ sheetStatus' = sheetStatus
    /\ recompute' = recompute

\* C1 (as claimed): once the stored status of a token is approved or rejected,
\* every approve / reject call for it that presents the correct secret, on the
\* single and on the batch endpoints, ends with the not-found outcome and places
\* no order, updates no page or sheet, writes no recompute task.
C1_ResolvedTokenEndsNotFound ==
    [][\A p \in Procs :
          (/\ SingleLookupStep(p) \/ (BatchStep(p) /\ proc'[p].sec = WEBHOOK_SECRET)
           /\ proc'[p].tok \in DOMAIN store
           /\ store[proc'[p].tok].status \in Terminal)
          => /\ proc'[p].pc = "done"
             /\ proc'[p].out = "not_found"
             /\ NoSideEffects]_vars

C3_ApprovedOnlyAfterOrder ==
    \A p \in Procs :
        (proc[p].ep = "approve" /\ InTrace(proc[p], "update_status"))
        => proc[p].trace \in
              { <<"get", "order_ok", page, sheet, "update_status">> :
                   page \in {"update_page", "update_page_failed"},
                   sheet \in {"update_sheet", "update_sheet_failed"} }
              \cup { <<"get", "order_ok", sheet, "update_status">> :
                       sheet \in {"update_sheet", "update_sheet_failed"} }

\* C4 (as claimed): when order placement fails in single-item approve (the supplier
\* raises or returns an error instead of an order) the handler stops there: error
\* outcome, no page or sheet update, no transition.
C4_FailedOrderStopsApprove ==
    \A p \in Procs :
        (/\ proc[p].ep = "approve"
         /\ InTrace(proc[p], "order_error") \/ InTrace(proc[p], "order_raise"))
        => /\ proc[p].pc = "done"
           /\ proc[p].out = "error"
           /\ \A tag \in {"update_page", "update_page_failed", "update_sheet",
                          "update_sheet_failed", "update_status"} :
                 ~InTrace(proc[p], tag)

\* the step enters a handler on worker p
CallStep(p) ==
    /\ calls' = calls + 1
    /\ proc'[p].pc # "idle"
    /\ \A q \in Procs \ {p} : proc'[q] = proc[q]

\* C5: on each of the four endpoints a call whose secret differs from the
\* configured one ends at once with an authorization error; it reads and writes
\* nothing of the store and calls no collaborator.
C5_WrongSecretTouchesNothing ==
    /\ [](\A p \in Procs :
            (proc[p].pc # "idle" /\ proc[p].sec # WEBHOOK_SECRET)
            => /\ proc[p].pc = "done"
               /\ proc[p].out = IF proc[p].ep \in SingleEps THEN "forbidden"
                                ELSE "invalid_secret"
               /\ proc[p].trace = <<>>)
    /\ [][\A p \in Procs :
            (CallStep(p) /\ proc'[p].sec # WEBHOOK_SECRET) => NoSideEffects]_vars

C5_Witness ==
    \E p \in Procs :
        /\ proc[p].pc = "done"
        /\ proc[p].sec # WEBHOOK_SECRET
        /\ proc[p].out \in {"forbidden", "invalid_secret"}
        /\ Active(proc[p].tok)

ActiveBatch(t) == Active(t) /\ store[t].action_type = "batch_reorder"

\* C7 (as claimed): batch approve with the correct secret on an active batch token
\* succeeds and reports every line item in exactly one of the approved and the
\* failed list.
C7_BatchAccountsForEveryItem ==
    [][\A p \in Procs :
          (/\ BatchStep(p)
           /\ proc'[p].ep = "approve_batch"
           /\ proc'[p].sec = WEBHOOK_SECRET
           /\ ActiveBatch(proc'[p].tok))
          => /\ proc'[p].out = "success"
             /\ Len(proc'[p].approved) + Len(proc'[p].failed)
                   = Len(store[proc'[p].tok].items)]_vars

\* C8 (as claimed): after batch approve with the correct secret on an active batch
\* token has returned, the stored status of the token is approved.
C8_BatchApproveResolvesToken ==
    [][\A p \in Procs :
          (/\ BatchStep(p)
           /\ proc'[p].ep = "approve_batch"
           /\ proc'[p].sec = WEBHOOK_SECRET
           /\ ActiveBatch(proc'[p].tok))
          => store'[proc'[p].tok].status = "approved"]_vars

C10_NonBatchTokenRefusedByBatchEndpoints ==
    [][\A p \in Procs :
          (/\ BatchStep(p)
           /\ proc'[p].sec = WEBHOOK_SECRET
           /\ Active(proc'[p].tok)
           /\ store[proc'[p].tok].action_type # "batch_reorder")
          => /\ proc'[p].out \in {"error", "invalid_type"}
             /\ NoSideEffects
             /\ store'[proc'[p].tok].status = "pending"]_vars

C10_Witness ==
    \E p \in Procs :
        /\ proc[p].pc = "done"
        /\ proc[p].ep \in BatchEps
        /\ proc[p].sec = WEBHOOK_SECRET
        /\ proc[p].out \in {"error", "invalid_type"}
        /\ Active(proc[p].tok)
        /\ store[proc[p].tok].action_type = "reorder"

\* the step ends a single-item handler on worker p that had found its action
SingleEndStep(p) ==
    /\ proc[p].pc \notin {"idle", "fetch", "done"}
    /\ proc'[p].pc = "done"

\* C11 (as claimed): no reject call, single or batch, invokes place_order, and a
\* reject call with the correct secret on an active token ends with the stored
\* status of that token rejected, also when the page and sheet updates fail.
C11_RejectEndsRejectedWithoutOrder ==
    /\ [](\A p \in Procs :
            proc[p].ep \in {"reject", "reject_batch"}
            => \A o \in PlaceOrderOutcomes : ~InTrace(proc[p], OrderTag[o]))
    /\ [][\A p \in Procs :
            (/\ BatchStep(p)
             /\ proc'[p].ep = "reject_batch"
             /\ proc'[p].sec = WEBHOOK_SECRET
             /\ ActiveBatch(proc'[p].tok))
            => /\ orders' = orders
               /\ store'[proc'[p].tok].status = "rejected"]_vars
    /\ [][\A p \in Procs :
            (SingleEndStep(p) /\ proc[p].ep = "reject")
            => /\ orders' = orders
               /\ store'[proc[p].tok].status = "rejected"]_vars

C13_UpdateFailuresDoNotBlockApprove ==
    \A p \in Procs :
        (proc[p].ep = "approve" /\ InTrace(proc[p], "order_ok"))
        => /\ \E j \in 1..Len(orders) : orders[j].tok = proc[p].tok
           /\ proc[p].pc \in {"page", "sheet", "status", "done"}
           /\ proc[p].pc = "done"
                 => /\ proc[p].out = "success"
                    /\ InTrace(proc[p], "update_status")

C13_Witness ==
    \E p \in Procs :
        /\ proc[p].ep = "approve"
        /\ proc[p].pc = "done"
        /\ proc[p].out = "success"
        /\ InTrace(proc[p], "order_ok")
        /\ InTrace(proc[p], "update_page_failed")
        /\ InTrace(proc[p], "update_sheet_failed")
        /\ store[proc[p].tok].status = "approved"

\* C14 (as claimed): after a single-item approve attempt failed at order
\* placement the token can be consumed by at most one more approve attempt within
\* its TTL: no attempt after a second failure reaches order placement.
C14_AtMostOneRetryAfterFailure ==
    \A p \in Procs :
        ~(/\ proc[p].ep = "approve"
          /\ proc[p].pc = "order"
          /\ orderFailures[proc[p].tok] >= 2)

\* C14 (amended): an approve attempt whose place_order raises ends with the error
\* outcome and leaves the stored record as it was, and the lookup keeps no count
\* of attempts: a working lookup returns every pending, unexpired token, so each
\* further attempt within the TTL reaches order placement again, also after two
\* or more failures.
C14_FailedAttemptsDoNotLimitRetries ==
    /\ [][\A p \in Procs :
            (proc[p].pc = "order" /\ proc'[p].pc = "done")
            => /\ store' = store
               /\ proc'[p].out = "error"]_vars
    /\ [](\A t \in Tokens :
            Active(t) => GetPendingAction(store, use_sqlite, t, now, TRUE) = store[t])
    /\ [][\A p \in Procs :
            (SingleLookupStep(p) /\ proc[p].ep = "approve" /\ Active(proc[p].tok))
            => \/ proc'[p].pc = "order"
               \/ proc'[p].pc = "done" /\ proc'[p].out = "not_found"]_vars

C14_Witness ==
    \E p \in Procs :
        /\ proc[p].ep = "approve"
        /\ proc[p].pc = "order"
        /\ orderFailures[proc[p].tok] >= 2
        /\ Active(proc[p].tok)

\* C15 (as claimed): each of the four endpoints answers a wrong secret with a
\* 403-class status, an unknown, expired or already resolved token with a
\* 404-class status, and a downstream failure that aborts the side effects with a
\* 500-class status.
C15_ErrorOutcomesCarryErrorStatus ==
    \A p \in Procs :
        proc[p].pc = "done"
        => LET code == HttpStatus(proc[p].ep, proc[p].out)
           IN /\ proc[p].sec # WEBHOOK_SECRET => code = STATUS_FORBIDDEN
              /\ proc[p].out = "not_found" => code = STATUS_NOT_FOUND
              /\ proc[p].out = "error" => code = STATUS_SERVER_ERROR

\* what a caller can be answered with: the success page or an error page
RenderedOutcomes ==
    {"success", "error", "not_found", "forbidden", "invalid_secret", "invalid_type"}

\* C16: every call of an approve or reject endpoint ends with a rendered outcome,
\* whichever of place_order, the page update, the sheet update, the store and the
\* recompute write fail: a handler that was entered always reaches its response.
C16_EveryCallGetsAResponse ==
    /\ [](\A p \in Procs : proc[p].pc = "done" => proc[p].out \in RenderedOutcomes)
    /\ \A p \in Procs :
          (proc[p].pc \notin {"idle", "done"}) ~> (proc[p].pc = "done")

C16_Witness ==
    \E p \in Procs :
        /\ proc[p].pc = "done"
        /\ proc[p].ep = "approve"
        /\ proc[p].out = "error"
        /\ InTrace(proc[p], "order_raise")

\* the fields of an action as the caller of store_pending_action passes it
PayloadFields ==
    {"sku", "action_type", "vendor", "quantity", "total_cost", "notion_page_id", "items"}

\* C17 (as claimed): for every action, single or batch with its ordered line
\* items, store_pending_action(token, action) followed by get_pending_action(token)
\* before expiry returns an action equal to the stored one in every field but the
\* derived timestamps, on the SQLite backend and on the JSON backend.
C17_StoreThenGetReturnsTheAction ==
    \A sqlite \in BOOLEAN, t \in ManagerTokens, a \in ManagerInputs :
        LET before == IF sqlite THEN backends.sq ELSE backends.js
            stored == StorePendingAction(before, sqlite, t, a, now)
        IN stored.ok
           => \A later \in now..(now + TTL_HOURS - 1) :
                 LET got == GetPendingAction(stored.st, sqlite, t, later, TRUE)
                 IN \A f \in PayloadFields : got[f] = a[f]

\* result of the last manager call on backend b
LastResult(bk, b) == IF b = "sq" THEN bk.rsq ELSE bk.rjs

\* C18: a successful store_pending_action(token, action) leaves one record for
\* the token, with status pending and expires_at = now + 24h, whether or not the
\* token had a record before and whatever its status or expiry was; the records
\* of all other tokens stay as they were.
C18_StoreReplacesTheRecord ==
    [][(backends' # backends /\ backends'.op = "store")
       => \A b \in {"sq", "js"} :
             LastResult(backends', b)
             => LET t == backends'.tok
                    old == backends[b]
                    new == backends'[b]
                IN /\ DOMAIN new = DOMAIN old \cup {t}
                   /\ new[t].status = "pending"
                   /\ FromIsoFormat(new[t].expires_at) = now + TTL_HOURS
                   /\ \A u \in DOMAIN old \ {t} : new[u] = old[u]]_vars

C18_Witness ==
    /\ backends.op = "store"
    /\ backends.had \in Terminal
    /\ backends.rsq /\ backends.rjs
    /\ DOMAIN backends.sq = ManagerTokens
    /\ backends.sq[backends.tok].status = "pending"
    /\ backends.js[backends.tok].status = "pending"
    /\ now = TTL_HOURS

\* every field of a stored record but its status
FixedFields == PayloadFields \cup {"expires_at"}

\* C19: the expires_at of a record is fixed when it is stored: get_pending_action,
\* update_action_status and the four approve / reject endpoints change no field
\* of a record other than status, so none of their steps makes an expired token
\* active again.
C19_OnlyStatusEverChanges ==
    /\ [][\A t \in DOMAIN store :
            /\ t \in DOMAIN store'
            /\ \A f \in FixedFields : store'[t][f] = store[t][f]]_vars
    /\ [][\A t \in DOMAIN store :
            FromIsoFormat(store[t].expires_at) <= now
            => ~(/\ store'[t].status = "pending"
                 /\ FromIsoFormat(store'[t].expires_at) > now')]_vars

C19_Witness ==
    \E p \in Procs :
        /\ proc[p].pc = "done"
        /\ proc[p].out = "success"
        /\ store[proc[p].tok].status \in Terminal
        /\ FromIsoFormat(store[proc[p].tok].expires_at) = TTL_HOURS
        /\ now > TTL_HOURS

\* C20 (as claimed): the SQLite backend and the JSON backend are observationally
\* equivalent: after the same sequence of store_pending_action, get_pending_action
\* and update_action_status calls with the same arguments and clock, each call
\* has returned the same result and the same fetched action on both, also for
\* batch actions with line items and for actions that omit a field.
C20_BackendsAnswerAlike ==
    backends.op # "" => backends.rsq = backends.rjs

(* --------------- write failures, module src/webhook/app.py -------------- *)

\* this step is worker p's update_action_status call
StatusStep(p) == proc[p].pc = "status" /\ proc'[p].pc # "status"

\* the status the endpoint of worker p writes
TargetStatus(p) == IF proc[p].ep = "approve" THEN "approved" ELSE "rejected"

\* C21 (as claimed): a failure in the write path of update_action_status reaches
\* the approve/reject endpoint as a failure: a call whose status write did not
\* happen ends with an error and does not go on as if the status were written.
C21_WriteFailureReachesTheCaller ==
    [][\A p \in Procs :
          (/\ StatusStep(p)
           /\ store'[proc[p].tok].status # TargetStatus(p))
          => (proc'[p].pc = "done" /\ proc'[p].out = "error")]_vars

(* --------------- concurrent approvals of one token ---------------------- *)

\* the orders placed for token t
OrdersFor(t) == { i \in 1..Len(orders) : orders[i].tok = t }

MaxEvaluations == 2

PolicyItems ==
    { [sku |-> "SKU1", on_hand |-> h, reorder_point |-> r, reorder_quantity |-> q] :
         h \in {0, 3, 25, 60}, r \in {10, 50}, q \in {Missing, 20} }

TransactionRows ==
    { [sku |-> "SKU1", quantity |-> 1], [sku |-> "SKU1", quantity |-> 6],
      [sku |-> "SKU2", quantity |-> 4] }

TransactionLists == UNION { [1..n -> TransactionRows] : n \in 0..MaxRows }

\* vendor dicts as the caller supplies them; the third carries no price and no lead time
VendorPool ==
    { [name |-> "Acme Supplies", price_per_unit |-> 12, lead_time |-> 7,
       eoq |-> Missing, total_annual_cost |-> Missing],
      [name |-> "Budget Components", price_per_unit |-> 10, lead_time |-> 14,
       eoq |-> Missing, total_annual_cost |-> Missing],
      [name |-> "Unpriced", price_per_unit |-> Missing, lead_time |-> Missing,
       eoq |-> Missing, total_annual_cost |-> Missing] }

VendorLists ==
    { l \in UNION { [1..n -> VendorPool] : n \in 0..MaxVendors } :
        \A i, j \in 1..Len(l) : i # j => l[i].name # l[j].name }

PolicyConfigs ==
    { [safety_margin_days |-> SAFETY_MARGIN_DAYS, min_order_qty |-> m] :
         m \in {MIN_ORDER_QTY, 15} }

PolicyInit ==
    /\ use_sqlite = TRUE
    /\ store = <<>>
    /\ now = 0
    /\ proc = [p \in Procs |-> IdleProc]
    /\ orders = <<>>
    /\ pageStatus = [pg \in Pages |-> ""]
    /\ sheetStatus = [k \in Skus |-> ""]
    /\ recompute = <<>>
    /\ calls = 0
    /\ orderFailures = [t \in Tokens |-> 0]
    /\ backends = BackendsInit
    /\ cycle = CycleIdle
    /\ \E self \in PolicyConfigs, item \in PolicyItems, transactions \in TransactionLists,
          vendors \in VendorLists :
         \E selected \in SelectBestVendorAnswers(vendors,
                                                 ComputeDailyAverage(transactions, item.sku)) :
            policy = [PolicyIdle EXCEPT !.self = self, !.inventory_item = item,
                                        !.transactions = transactions,
                                        !.vendors = vendors, !.selected = selected]

\* one call of policy.evaluate_reorder_need on the inputs held in policy
Evaluate ==
    /\ Len(policy.results) < MaxEvaluations
    /\ LET today == now \div 24
           r == EvaluateReorderNeed(policy.self, policy.inventory_item, policy.transactions,
                                    policy.vendors, policy.selected, today)
       IN policy' = [policy EXCEPT !.vendors = r.vendors,
                                   !.results = Append(@, [today |-> today, result |-> r.result])]
    /\ UNCHANGED <<use_sqlite, store, now, proc, orders, pageStatus, sheetStatus, recompute, calls, orderFailures, backends, cycle>>

PolicyNext ==
    \/ Evaluate
    \/ Tick(TTL_HOURS)

PolicySpec == PolicyInit /\ [][PolicyNext]_vars

(* --------------- claims about the reorder policy ------------------------ *)

\* the results of the policy calls made so far that are decisions
Decisions == { policy.results[i].result : i \in 1..Len(policy.results) }
                \ {Raised}

\* the daily average of the inputs held in policy
AvgDaily == ComputeDailyAverage(policy.transactions, policy.inventory_item.sku)

\* the supplied vendor a decision names
VendorNamed(name) ==
    CHOOSE v \in { policy.vendors[i] : i \in 1..Len(policy.vendors) } : v.name = name

\* on_hand / avgDaily <= days, for avgDaily = num / den > 0
DaysOfStockAtMost(days) ==
    policy.inventory_item.on_hand * AvgDaily.den <= days * AvgDaily.num

AtOrBelowReorderPoint ==
    policy.inventory_item.on_hand <= policy.inventory_item.reorder_point

\* C24: in a decision that names a vendor, needs_reorder of a SKU with no matching
\* transactions is exactly on_hand <= reorder_point, whatever the vendor's lead time
\* and the safety margin; with usage it is (on_hand / avgDaily <= lead time + safety
\* margin) or (on_hand <= reorder_point). A zero-demand SKU at or below its reorder
\* point gets a vendor whenever one is priced, and a decision without a vendor never
\* needs a reorder.
C24_ReorderTrigger ==
    \A d \in Decisions :
       /\ d.vendor # PyNone =>
            d.needs_reorder =
               IF AvgDaily.num = 0 THEN AtOrBelowReorderPoint
               ELSE \/ DaysOfStockAtMost(VendorNamed(d.vendor).lead_time
                                         + policy.self.safety_margin_days)
                    \/ AtOrBelowReorderPoint
       /\ (AvgDaily.num = 0 /\ AtOrBelowReorderPoint /\ Priced(policy.vendors) # {})
            => d.needs_reorder
       /\ d.vendor = PyNone => ~d.needs_reorder

\* onHand = 25, reorderPoint = 50, avgDaily = 3, leadTime = 7, safetyMargin = 7:
\* needs_reorder is true
C24_Witness ==
    /\ policy.inventory_item.on_hand = 25
    /\ policy.inventory_item.reorder_point = 50
    /\ AvgDaily.num = 3 * AvgDaily.den
    /\ policy.self.safety_margin_days = 7
    /\ \E d \in Decisions : d.needs_reorder /\ VendorNamed(d.vendor).lead_time = 7

\* the urgency tier a decision's evidence summary names
UrgencyTier(d) ==
    CASE d.evidence_summary = "URGENT PRIORITY" -> "URGENT"
      [] d.evidence_summary = "HIGH PRIORITY" -> "HIGH"
      [] d.evidence_summary = "MEDIUM PRIORITY" -> "MEDIUM"
      [] OTHER -> "NONE"

\* C25: the tier of a decision is NONE when needs_reorder is false; otherwise URGENT
\* if days until stockout <= safety margin, else HIGH if days until stockout <=
\* lead time + safety margin, else MEDIUM (the reorder comes from on_hand <=
\* reorder_point alone). A zero-demand item never runs out on a schedule, so at or
\* below its reorder point it is MEDIUM.
C25_UrgencyTier ==
    \A d \in Decisions :
       UrgencyTier(d) =
          IF ~d.needs_reorder THEN "NONE"
          ELSE IF AvgDaily.num > 0 /\ DaysOfStockAtMost(policy.self.safety_margin_days)
               THEN "URGENT"
          ELSE IF /\ AvgDaily.num > 0
                  /\ DaysOfStockAtMost(VendorNamed(d.vendor).lead_time
                                       + policy.self.safety_margin_days)
               THEN "HIGH"
          ELSE "MEDIUM"

\* a zero-demand item at or below its reorder point (onHand = 3, reorderPoint = 10)
\* with a priced vendor is rated MEDIUM
C25_Witness ==
    /\ AvgDaily.num = 0
    /\ policy.inventory_item.on_hand = 3
    /\ policy.inventory_item.reorder_point = 10
    /\ \E d \in Decisions : d.needs_reorder /\ UrgencyTier(d) = "MEDIUM"

\* onHand = 25, avgDaily = 3, leadTime = 7, safetyMargin = 7 is rated HIGH
C25_HighExample ==
    /\ policy.inventory_item.on_hand = 25
    /\ AvgDaily.num = 3 * AvgDaily.den
    /\ policy.self.safety_margin_days = 7
    /\ \E d \in Decisions : VendorNamed(d.vendor).lead_time = 7 /\ UrgencyTier(d) = "HIGH"

\* C26: a decision with needs_reorder has qty = max(EOQ, minOrderQty,
\* avgDaily * targetStockDays - on_hand), which is at least minOrderQty and not
\* negative; a decision without needs_reorder has qty = 0.
C26_RecommendedQuantity ==
    \A d \in Decisions :
       LET target == (AvgDaily.num * TARGET_STOCK_DAYS) \div AvgDaily.den
           toTarget == target - policy.inventory_item.on_hand
       IN IF d.needs_reorder
          THEN /\ d.qty >= d.eoq
               /\ d.qty >= policy.self.min_order_qty
               /\ d.qty >= toTarget
               /\ d.qty \in {d.eoq, policy.self.min_order_qty, toTarget}
               /\ d.qty >= 0
          ELSE d.qty = 0

\* a decision that needs a reorder and whose quantity is the gap to the target
\* stock, above the EOQ and above the minimum order quantity
C26_Witness ==
    \E d \in Decisions :
       /\ d.needs_reorder
       /\ d.qty = (AvgDaily.num * TARGET_STOCK_DAYS) \div AvgDaily.den
                     - policy.inventory_item.on_hand
       /\ d.qty > d.eoq
       /\ d.qty > policy.self.min_order_qty

(* --------------- InventoryAgent.run_cycle, module src/agent_main.py ----- *)
\* AUTO_ORDER_THRESHOLD, in currency units; amounts of the cycle are in hundredths
AUTO_ORDER_THRESHOLD == 500
\* VENDOR_TRUST_THRESHOLD 0.8 and the trust scores, in hundredths
VENDOR_TRUST_THRESHOLD == 80

MaxSkus == 2

\* rows of _fetch_inventory_data
SkuData ==
    { [sku |-> "SKU1", on_hand |-> h, reorder_point |-> 10, reorder_quantity |-> 20] :
         h \in {3, 60} }
    \cup { [sku |-> "SKU2", on_hand |-> 0, reorder_point |-> 10, reorder_quantity |-> 10] }
    \cup { [sku |-> "SKU3", on_hand |-> NoneValue, reorder_point |-> 10,
            reorder_quantity |-> 10] }

Inventories ==
    { l \in UNION { [1..n -> SkuData] : n \in 0..MaxSkus } :
        \A i, j \in 1..Len(l) : i # j => l[i].sku # l[j].sku }

\* four of the hard-coded vendors of _get_vendor_data, prices in hundredths
AgentVendors ==
    << [name |-> "Acme Supplies", price_per_unit |-> 1250, lead_time |-> 7,
        eoq |-> Missing, total_annual_cost |-> Missing],
       [name |-> "Quick Ship", price_per_unit |-> 1320, lead_time |-> 3,
        eoq |-> Missing, total_annual_cost |-> Missing],
       [name |-> "Industrial Supply Co", price_per_unit |-> 1125, lead_time |-> 8,
        eoq |-> Missing, total_annual_cost |-> Missing],
       [name |-> "Budget Components", price_per_unit |-> 995, lead_time |-> 14,
        eoq |-> Missing, total_annual_cost |-> Missing] >>

\* random.sample(all_vendors, num_vendors): the samples of three of them
VendorSamples ==
    { [i \in 1..3 |-> AgentVendors[IF i < k THEN i ELSE i + 1]] : k \in 1..4 }

\* _get_vendor_trust_score, in hundredths
VendorTrustScore(vendor) ==
    CASE vendor = "vendor_a" -> 95
      [] vendor = "vendor_b" -> 85
      [] vendor = "vendor_c" -> 75
      [] OTHER -> 80

NoReorderNeeded_NeverSkips(reorder_decision) == FALSE

\* lines 334-336: if not reorder_decision.get('needs_reorder', False): return None
NoReorderNeeded(reorder_decision) == ~reorder_decision.needs_reorder

ShouldAutoOrder_CostOnly(c, reorder_decision) ==
    reorder_decision.total_cost < c.auto_order_threshold

\* lines 372-378
ShouldAutoOrder(c, reorder_decision) ==
    /\ reorder_decision.total_cost < c.auto_order_threshold
    /\ VendorTrustScore(reorder_decision.vendor) >= c.vendor_trust_threshold

AutoOrderBranch_IgnoresDryRun(c, reorder_decision) == ShouldAutoOrder(c, reorder_decision)

\* line 380: if should_auto_order and not self.dry_run
AutoOrderBranch(c, reorder_decision) ==
    ShouldAutoOrder(c, reorder_decision) /\ ~c.dry_run

EmailAttempted_WithoutStore(stored) == TRUE

\* lines 650-652: if not store_pending_approval(...): log and return, so the
\* approve and reject links are built and mailed only after a store that succeeded
EmailAttempted(stored) == stored

\* lines 317-321: the item handed to the policy
InventoryItem(sku_data) ==
    [sku |-> sku_data.sku,
     on_hand |-> IF sku_data.on_hand = Missing THEN 0 ELSE sku_data.on_hand,
     reorder_point |-> sku_data.reorder_point, reorder_quantity |-> Missing]

\* lines 400-406
ApprovalRequest(sku, reorder_decision, page, reason) ==
    [sku |-> sku, reorder_decision |-> reorder_decision, notion_page_id |-> page,
     reason |-> reason]

\* lines 634-643
BatchItems(approval_requests) ==
    [i \in 1..Len(approval_requests) |->
       [sku |-> approval_requests[i].sku,
        vendor |-> approval_requests[i].reorder_decision.vendor,
        quantity |-> approval_requests[i].reorder_decision.qty,
        total_cost |-> approval_requests[i].reorder_decision.total_cost,
        notion_page_id |-> approval_requests[i].notion_page_id]]

SkuFailed_AbortsThePass(c) ==
    [c EXCEPT !.errors = Append(@, "Error processing SKU"), !.pc = "done"]

\* lines 215-219: the except branch inside the loop records the error and the
\* loop goes on with the next SKU
SkuFailed(c) ==
    [c EXCEPT !.errors = Append(@, "Error processing SKU")]

CycleConfigs ==
    { [CycleIdle EXCEPT !.dry_run = d, !.auto_order_threshold = th[1],
                        !.vendor_trust_threshold = th[2], !.inventory = inv,
                        !.pc = "loop"] :
         d \in BOOLEAN, inv \in Inventories,
         th \in { <<AUTO_ORDER_THRESHOLD * 100, VENDOR_TRUST_THRESHOLD>>,
                  <<10000, VENDOR_TRUST_THRESHOLD>>,
                  <<AUTO_ORDER_THRESHOLD * 100, 90>> } }

CycleInit ==
    /\ use_sqlite \in BOOLEAN
    /\ store = <<>>
    /\ now = 0
    /\ proc = [p \in Procs |-> IdleProc]
    /\ orders = <<>>
    /\ pageStatus = [pg \in Pages |-> ""]
    /\ sheetStatus = [k \in Skus |-> ""]
    /\ recompute = <<>>
    /\ calls = 0
    /\ orderFailures = [t \in Tokens |-> 0]
    /\ backends = BackendsInit
    /\ policy = PolicyIdle
    /\ cycle \in CycleConfigs

\* one pass of the loop of run_cycle (208-219) with _process_sku (303-406):
\* vendors is the sample _get_vendor_data returns, page the id _update_notion_page
\* returns, o the outcome of supplier_connector.place_order in _place_auto_order
ProcessSku(vendors, page, o) ==
    /\ cycle.pc = "loop"
    /\ cycle.i < Len(cycle.inventory)
    /\ LET sku_data == cycle.inventory[cycle.i + 1]
           sku == sku_data.sku
           reorder_decision ==
              EvaluateReorderNeed(policy.self, InventoryItem(sku_data), <<>>, vendors,
                                  NoVendor, now \div 24).result
           c == [cycle EXCEPT !.i = @ + 1,
                              !.decisions = Append(@, [vendors |-> vendors,
                                                       result |-> reorder_decision])]
           auto == AutoOrderBranch(cycle, reorder_decision)
           reason == IF auto THEN "auto_order_failed"
                     ELSE IF cycle.dry_run THEN "dry_run" ELSE "cost_or_trust"
       IN IF reorder_decision.raised
          THEN /\ cycle' = SkuFailed(c)
               /\ UNCHANGED <<orders, pageStatus>>
          ELSE IF NoReorderNeeded(reorder_decision)
          THEN /\ cycle' = [c EXCEPT !.processed_skus = @ + 1]
               /\ UNCHANGED <<orders, pageStatus>>
          ELSE IF auto /\ o = "ok"
          THEN /\ cycle' = [c EXCEPT !.auto = @ \cup {sku}, !.processed_skus = @ + 1]
               /\ orders' = Append(orders, [vendor |-> reorder_decision.vendor, sku |-> sku,
                                            qty |-> reorder_decision.qty, tok |-> ""])
               /\ \E marked \in BOOLEAN :
                    pageStatus' = IF marked /\ page \in Pages
                                  THEN [pageStatus EXCEPT ![page] = "ordered"]
                                  ELSE pageStatus
          ELSE /\ cycle' = [c EXCEPT !.pending_approvals =
                                        Append(@, ApprovalRequest(sku, reorder_decision,
                                                                  page, reason)),
                                     !.processed_skus = @ + 1]
               /\ UNCHANGED <<orders, pageStatus>>
    /\ UNCHANGED <<use_sqlite, store, now, proc, sheetStatus, recompute, calls, orderFailures, backends, policy>>

\* the rest of run_cycle (222-247) with _send_batch_approval_email (596-681):
\* token is the fresh uuid4, writeOk = FALSE the except branch of store_pending_action,
\* sent whether mcp_connector.send_approval_email handed back a message id.
\* _send_batch_approval_email has no return statement with a value, so run_cycle
\* records the email as failed whether or not it was sent.
SendBatch(token, writeOk, sent) ==
    /\ cycle.pc = "loop"
    /\ cycle.i = Len(cycle.inventory)
    /\ token \notin DOMAIN store
    /\ IF cycle.pending_approvals = <<>>
       THEN /\ cycle' = [cycle EXCEPT !.pc = "done"]
            /\ store' = store
       ELSE LET batch_action_data == BatchAction(BatchItems(cycle.pending_approvals))
                r == StorePendingAction(store, use_sqlite, token, batch_action_data, now)
                ok == writeOk /\ r.ok
            IN /\ store' = IF ok THEN r.st ELSE store
               /\ cycle' = [cycle EXCEPT
                              !.pc = "done",
                              !.batch = <<batch_action_data>>,
                              !.stored = ok,
                              !.emails = IF EmailAttempted(ok) /\ sent
                                         THEN Append(@, token) ELSE @,
                              !.errors = Append(@, "Failed to send batch approval email")]
    /\ UNCHANGED <<use_sqlite, now, proc, orders, pageStatus, sheetStatus, recompute, calls, orderFailures, backends, policy>>

CycleNext ==
    \/ \E vendors \in VendorSamples, page \in {"pg1", ""}, o \in PlaceOrderOutcomes :
          ProcessSku(vendors, page, o)
    \/ \E token \in Tokens, writeOk, sent \in BOOLEAN : SendBatch(token, writeOk, sent)

CycleSpec == CycleInit /\ [][CycleNext]_vars

(* --------------- claims about the cycle --------------------------------- *)

\* the lowest unit price among the vendors
LowestPrice(vendors) ==
    CHOOSE x \in { vendors[i].price_per_unit : i \in Priced(vendors) } :
       \A i \in Priced(vendors) : x <= vendors[i].price_per_unit

\* the fallback of a zero-demand item as the specification gives it: the vendor of
\* the decision d has the lowest unit price of vendors, EOQ is max(minOrderQty,
\* reorder quantity of the item) and total_cost is EOQ times that price
FallbackAsSpecified(d, vendors, self, reorder_quantity) ==
    /\ d.needs_reorder
    /\ \E i \in Priced(vendors) :
          /\ vendors[i].name = d.vendor
          /\ vendors[i].price_per_unit = LowestPrice(vendors)
    /\ d.eoq = Max2(self.min_order_qty, reorder_quantity)
    /\ d.total_cost = d.eoq * LowestPrice(vendors)

\* the policy called directly: a zero-demand item at or below its reorder point,
\* with a priced vendor, gets the fallback as specified (the item's reorder
\* quantity, 10 when the item carries none)
FallbackOfDirectCall ==
    \A d \in Decisions :
       (AvgDaily.num = 0 /\ AtOrBelowReorderPoint /\ Priced(policy.vendors) # {})
       => FallbackAsSpecified(d, policy.vendors, policy.self,
                              IF policy.inventory_item.reorder_quantity = Missing
                              THEN DEFAULT_REORDER_QUANTITY
                              ELSE policy.inventory_item.reorder_quantity)

\* C27 (as claimed): the decision the cycle produces for a zero-demand inventory
\* row with on_hand <= reorder_point names the supplied vendor with the lowest unit
\* price, has EOQ = max(minOrderQty, reorder quantity of the row) and total_cost =
\* EOQ times that vendor's unit price.
C27_CycleFallbackUsesItemReorderQuantity ==
    \A k \in 1..Len(cycle.decisions) :
       LET row == cycle.inventory[k]
       IN row.on_hand <= row.reorder_point
          => FallbackAsSpecified(cycle.decisions[k].result, cycle.decisions[k].vendors,
                                 policy.self, row.reorder_quantity)

\* no vendor can be resolved from the inputs held in policy: the optimizer selected
\* none, and the zero-demand fallback does not apply or finds no priced vendor
NoVendorResolvable ==
    /\ policy.selected = NoVendor
    /\ ~(AvgDaily.num = 0 /\ AtOrBelowReorderPoint /\ Priced(policy.vendors) # {})

\* C28: a call with an empty vendor list raises and gives no decision, and no other
\* call raises; a call with a non-empty vendor list from which no vendor can be
\* resolved returns a decision with needs_reorder = false, vendor = none, qty = 0.
C28_EmptyVendorListRaises ==
    \A i \in 1..Len(policy.results) :
       LET r == policy.results[i].result
       IN /\ r.raised <=> policy.vendors = <<>>
          /\ (policy.vendors # <<>> /\ NoVendorResolvable)
               => (~r.needs_reorder /\ r.vendor = PyNone /\ r.qty = 0)

\* a call with a non-empty vendor list none of which carries a price, for an item
\* at or below its reorder point, has returned the decision without a vendor
C28_Witness ==
    /\ policy.vendors # <<>>
    /\ Priced(policy.vendors) = {}
    /\ AtOrBelowReorderPoint
    /\ \E d \in Decisions : d.vendor = PyNone /\ ~d.needs_reorder

\* a call with an empty vendor list has raised
C28_RaiseSeen ==
    /\ policy.vendors = <<>>
    /\ \E i \in 1..Len(policy.results) : policy.results[i].result = Raised

NeedingReorder ==
    { cycle.inventory[k].sku : k \in { j \in 1..Len(cycle.decisions) :
                                          cycle.decisions[j].result.needs_reorder } }

\* the SKUs of a list of line items or approval requests
SkusOf(items) == { items[i].sku : i \in 1..Len(items) }

\* the batch actions the cycle has built and the batch records the store holds
BatchesOfCycle ==
    { cycle.batch[i] : i \in 1..Len(cycle.batch) }
    \cup { store[t] : t \in { u \in DOMAIN store : store[u].action_type = "batch_reorder" } }

\* C22: every line item of the batch action a cycle builds, and of the record the
\* store holds of it, belongs to a SKU whose decision in this cycle has
\* needs_reorder = true; the store holds nothing but that batch action, and a
\* cycle that collected no approval request stores nothing.
C22_OnlyNeededReordersAreStored ==
    /\ \A b \in BatchesOfCycle : SkusOf(b.items) \subseteq NeedingReorder
    /\ SkusOf(cycle.pending_approvals) \subseteq NeedingReorder
    /\ \A t \in DOMAIN store : store[t].action_type = "batch_reorder" /\ cycle.stored
    /\ cycle.pending_approvals = <<>> => DOMAIN store = {}

\* a finished cycle that saw a SKU without need and one with need, and whose
\* stored batch action (JSON backend) has the latter as its only line item
C22_Witness ==
    /\ cycle.pc = "done"
    /\ \E k \in 1..Len(cycle.decisions) : ~cycle.decisions[k].result.needs_reorder
    /\ \E t \in DOMAIN store :
          /\ Len(store[t].items) = 1
          /\ SkusOf(store[t].items) = NeedingReorder

\* the SKUs for which the cycle placed an order that the supplier accepted
AutoOrdered == { orders[i].sku : i \in 1..Len(orders) }

\* the decision of the cycle for a SKU
DecisionFor(sku) ==
    cycle.decisions[CHOOSE k \in 1..Len(cycle.decisions) : cycle.inventory[k].sku = sku].result

C32_SuccessLeavesTokenInactive ==
    [][\A p \in Procs :
          (SingleEndStep(p) /\ proc'[p].out = "success")
          => GetPendingAction(store', use_sqlite, proc[p].tok, now', TRUE) = NoAction]_vars

(* --------------- a batch token at the single-item endpoints ------------- *)

\* worker p takes a step of a single-item call that works on a batch action
SingleStepOnBatch(p) ==
    /\ proc[p].ep \in SingleEps
    /\ proc[p].pc \notin {"idle", "fetch", "done"}
    /\ proc[p].act.action_type = "batch_reorder"
    /\ proc'[p] # proc[p]

\* C33 (as claimed): a batch-reorder action is consumed only through the batch
\* endpoints: single-item approve and reject, called with the correct secret and
\* an active batch token, place no order for the sentinel SKU 'BATCH' with vendor
\* 'MULTIPLE' and leave the stored status of the batch token as it was.
C33_SingleEndpointsLeaveBatchTokens ==
    [][\A p \in Procs :
          SingleStepOnBatch(p)
          => /\ orders' = orders
             /\ proc[p].tok \in DOMAIN store
                  => store'[proc[p].tok].status = store[proc[p].tok].status]_vars

(* --------------- update_action_status on any record --------------------- *)

\* this step is an update_action_status call on the two managers
ManagerUpdateStep == backends' # backends /\ backends'.op = "update"

\* what the call is claimed to leave in one backend: the record of the token,
\* when there is one, with the status it was given, and nothing else touched
StatusWritten(before, after, t, s) ==
    /\ DOMAIN after = DOMAIN before
    /\ \A u \in DOMAIN before :
          after[u] = IF u = t THEN [before[u] EXCEPT !.status = s] ELSE before[u]

\* C34: update_action_status(token, s) is unconditional: it writes s whatever the
\* record's current status and whether or not it has expired, creates no record
\* when the token has none, and reports success in both cases.
C34_UpdateIsUnconditional ==
    [][ManagerUpdateStep
       => /\ StatusWritten(backends.sq, backends'.sq, backends'.tok, backends'.arg)
          /\ StatusWritten(backends.js, backends'.js, backends'.tok, backends'.arg)
          /\ backends'.rsq = TRUE
          /\ backends'.rjs = TRUE]_vars

\* an update has just rewritten the status of a record that had expired, on both
\* backends, while the other token has no record at all
C34_Witness ==
    /\ backends.op = "update"
    /\ backends.arg = "rejected"
    /\ DOMAIN backends.sq = {backends.tok}
    /\ backends.sq[backends.tok].status = "rejected"
    /\ backends.js[backends.tok].status = "rejected"
    /\ FromIsoFormat(backends.js[backends.tok].expires_at) <= now
    /\ backends.rsq /\ backends.rjs

\* an update for a token without a record has reported success and created none
C34_UnknownTokenExample ==
    /\ backends.op = "update"
    /\ backends.tok \notin DOMAIN backends.sq
    /\ backends.tok \notin DOMAIN backends.js
    /\ backends.rsq /\ backends.rjs

(* --------------- the batch approval email of a cycle -------------------- *)

\* the tokens the cycle has mailed approve and reject links for
Emailed == { cycle.emails[i] : i \in 1..Len(cycle.emails) }

\* C36: the orchestrator mails a token only after the pending action of that
\* token was stored successfully: at the moment a token is mailed the store holds
\* its pending record, and a cycle whose store failed mails nothing.
C36_StoreBeforeEmail ==
    /\ [](\A t \in Emailed : t \in DOMAIN store /\ cycle.stored)
    /\ []((cycle.pc = "done" /\ ~cycle.stored) => cycle.emails = <<>>)
    /\ [][cycle'.emails # cycle.emails
          => \A t \in { cycle'.emails[i] : i \in 1..Len(cycle'.emails) } \ Emailed :
                /\ t \in DOMAIN store'
                /\ store'[t].status = "pending"
                /\ store'[t].action_type = "batch_reorder"]_vars

\* a finished cycle that stored its batch action and mailed the token of it
C36_Witness ==
    /\ cycle.pc = "done"
    /\ cycle.stored
    /\ cycle.emails # <<>>
    /\ Emailed \subseteq DOMAIN store

\* a finished cycle that had approval requests, failed to store the batch action
\* and mailed nothing
C36_FailedStoreExample ==
    /\ cycle.pc = "done"
    /\ cycle.pending_approvals # <<>>
    /\ ~cycle.stored
    /\ cycle.emails = <<>>

\* C37 (as claimed): when a cycle has at least one pending approval and the batch
\* approval email is sent successfully, run_cycle reports approval_emails_sent = 1
\* and batch_approvals_pending = the number of pending approvals, and does not add
\* 'Failed to send batch approval email' to its error list.
C37_SentEmailIsReported ==
    (cycle.pc = "done" /\ cycle.pending_approvals # <<>> /\ cycle.emails # <<>>)
    => /\ cycle.approval_emails_sent = 1
       /\ cycle.batch_approvals_pending = Len(cycle.pending_approvals)
       /\ \A i \in 1..Len(cycle.errors) :
             cycle.errors[i] # "Failed to send batch approval email"

(* --------------- dry run ------------------------------------------------ *)

\* C38: a dry-run cycle places no supplier order: every SKU that needs a
\* reorder, whatever its cost and the trust score of its vendor, is left without
\* an auto order and is among the approval requests of the batch.
C38_DryRunPlacesNoOrder ==
    cycle.dry_run
    => /\ orders = <<>>
       /\ cycle.auto = {}
       /\ SkusOf(cycle.pending_approvals) = NeedingReorder
       /\ \A i \in 1..Len(cycle.batch) : SkusOf(cycle.batch[i].items) = NeedingReorder

\* a finished dry run whose batch holds a SKU that passes both thresholds, so that
\* the same cycle without dry run would have ordered it
C38_Witness ==
    /\ cycle.pc = "done"
    /\ cycle.dry_run
    /\ cycle.batch # <<>>
    /\ \E i \in 1..Len(cycle.pending_approvals) :
          LET d == cycle.pending_approvals[i].reorder_decision
          IN /\ d.total_cost < cycle.auto_order_threshold
             /\ VendorTrustScore(d.vendor) >= cycle.vendor_trust_threshold
             /\ cycle.pending_approvals[i].reason = "dry_run"

(* --------------- ReorderPolicy.batch_evaluate_reorders ----------------- *)
MaxBatch == 3

\* line 339: [t for t in transactions if t.get('sku') == item['sku']]
ItemTransactions(transactions, sku) ==
    SelectSeq(transactions, LAMBDA t : t.sku = sku)

\* lines 349-354: the result appended for an item whose evaluation raised
ErrorResult(item) ==
    [sku |-> item.sku, needs_reorder |-> FALSE, error |-> "raised",
     evidence_summary |-> "Error evaluating"]

\* lines 337-354: the body of the loop, what it appends to results
ItemResult(self, item, transactions, vendors, selected, today) ==
    LET r == EvaluateReorderNeed(self, item, ItemTransactions(transactions, item.sku),
                                 vendors, selected, today).result
    IN IF r.raised THEN <<ErrorResult(item)>> ELSE <<r>>

\* lines 357-360: the sort key, x.get(..., 999) in tenths of a day
DEFAULT_SORT_DAYS == 999

SortKey(x) ==
    [rank |-> IF x.needs_reorder THEN 0 ELSE 1,
     days |-> IF "days_until_stockout" \in DOMAIN x /\ x.days_until_stockout # Missing
              THEN x.days_until_stockout
              ELSE DEFAULT_SORT_DAYS * 10]

\* tuple comparison of two keys
KeyLess(a, b) == a.rank < b.rank \/ (a.rank = b.rank /\ a.days < b.days)

\* x put before the first element of a sorted list whose key is above its own
RECURSIVE InsertByKey(_, _)
InsertByKey(sorted, x) ==
    IF sorted = <<>> THEN <<x>>
    ELSE IF KeyLess(SortKey(x), SortKey(Head(sorted))) THEN <<x>> \o sorted
    ELSE <<Head(sorted)>> \o InsertByKey(Tail(sorted), x)

RECURSIVE StableSort(_, _)
StableSort(done, rest) ==
    IF rest = <<>> THEN done
    ELSE StableSort(InsertByKey(done, Head(rest)), Tail(rest))

SortResults_InputOrder(results) == results

\* list.sort(key=...): stable, ascending
SortResults(results) == StableSort(<<>>, results)

RECURSIVE EvaluateItems(_, _, _, _, _, _)
\* the for loop: one pass per item, selections the answers of select_best_vendor
EvaluateItems(self, inventory_items, transactions, vendors, selections, today) ==
    IF inventory_items = <<>> THEN <<>>
    ELSE ItemResult(self, Head(inventory_items), transactions, vendors,
                    selections[Head(inventory_items).sku], today)
         \o EvaluateItems(self, Tail(inventory_items), transactions, vendors,
                          selections, today)

BatchEvaluateReorders(self, inventory_items, transactions, vendors, selections, today) ==
    SortResults(EvaluateItems(self, inventory_items, transactions, vendors,
                              selections, today))

\* items of a batch call: the second SKU1 row has no 'on_hand' key
EvalItemPool ==
    { [sku |-> "SKU1", on_hand |-> h, reorder_point |-> 10, reorder_quantity |-> Missing] :
         h \in {3, 25, 60, Missing} }
    \cup { [sku |-> "SKU2", on_hand |-> h, reorder_point |-> 10, reorder_quantity |-> Missing] :
              h \in {0, 40} }

EvalSkus == {"SKU1", "SKU2"}

EvalTransactions ==
    { <<>>,
      << [sku |-> "SKU1", quantity |-> 6] >>,
      << [sku |-> "SKU1", quantity |-> 1], [sku |-> "SKU2", quantity |-> 4] >> }

EvalVendorLists ==
    { << [name |-> "Acme Supplies", price_per_unit |-> 12, lead_time |-> 7,
          eoq |-> Missing, total_annual_cost |-> Missing],
         [name |-> "Budget Components", price_per_unit |-> 10, lead_time |-> 14,
          eoq |-> Missing, total_annual_cost |-> Missing] >>,
      << [name |-> "Unpriced", price_per_unit |-> Missing, lead_time |-> Missing,
          eoq |-> Missing, total_annual_cost |-> Missing] >> }

\* select_best_vendor is a function of the vendor list and the demand, so one
\* answer per SKU of the call
EvalSelections(transactions, vendors) ==
    { f \in [EvalSkus -> UNION { SelectBestVendorAnswers(vendors,
                                     ComputeDailyAverage(transactions, k)) : k \in EvalSkus }] :
        \A k \in EvalSkus :
           f[k] \in SelectBestVendorAnswers(vendors, ComputeDailyAverage(transactions, k)) }

BatchEvalInit ==
    /\ use_sqlite = TRUE
    /\ store = <<>>
    /\ now = 0
    /\ proc = [p \in Procs |-> IdleProc]
    /\ orders = <<>>
    /\ pageStatus = [pg \in Pages |-> ""]
    /\ sheetStatus = [k \in Skus |-> ""]
    /\ recompute = <<>>
    /\ calls = 0
    /\ orderFailures = [t \in Tokens |-> 0]
    /\ backends = BackendsInit
    /\ cycle = CycleIdle
    /\ \E items \in UNION { [1..n -> EvalItemPool] : n \in 0..MaxBatch }, transactions \in EvalTransactions,
          vendors \in EvalVendorLists :
         \E selections \in EvalSelections(transactions, vendors) :
            policy = [PolicyIdle EXCEPT !.inventory_items = items,
                                        !.transactions = transactions,
                                        !.vendors = vendors,
                                        !.selections = selections,
                                        !.pending = TRUE]

\* one call of policy.batch_evaluate_reorders on the inputs held in policy
BatchEvaluate ==
    /\ policy.pending
    /\ policy' = [policy EXCEPT
                    !.pending = FALSE,
                    !.results = BatchEvaluateReorders(policy.self, policy.inventory_items,
                                                      policy.transactions, policy.vendors,
                                                      policy.selections, now \div 24)]
    /\ UNCHANGED <<use_sqlite, store, now, proc, orders, pageStatus, sheetStatus, recompute, calls, orderFailures, backends, cycle>>

BatchEvalNext == BatchEvaluate

BatchEvalSpec == BatchEvalInit /\ [][BatchEvalNext]_vars

\* a pass over the inventory, by the orchestrator's cycle or by one batch call
PassInit == CycleInit \/ BatchEvalInit

PassNext == CycleNext \/ BatchEvalNext

PassSpec == PassInit /\ [][PassNext]_vars

(* --------------- claims on the pass over the inventory ----------------- *)

\* the batch call held in policy has returned
BatchReturned == ~policy.pending

\* results of the batch call that are error results / evaluated decisions of sku k
ErrorResultsOf(k) ==
    { i \in 1..Len(policy.results) :
         policy.results[i].sku = k /\ "error" \in DOMAIN policy.results[i] }

DecisionsOf(k) ==
    { i \in 1..Len(policy.results) :
         policy.results[i].sku = k /\ "error" \notin DOMAIN policy.results[i] }

\* input items of sku k that lack 'on_hand' (their evaluation raises) / that have it
FailingItemsOf(k) ==
    { i \in 1..Len(policy.inventory_items) :
         policy.inventory_items[i].sku = k /\ policy.inventory_items[i].on_hand = Missing }

SoundItemsOf(k) ==
    { i \in 1..Len(policy.inventory_items) :
         policy.inventory_items[i].sku = k /\ policy.inventory_items[i].on_hand # Missing }

\* one result per input item: an error result with needs_reorder = false for each
\* failing item, a decision for each of the others
OneResultPerItem ==
    /\ Len(policy.results) = Len(policy.inventory_items)
    /\ \A k \in EvalSkus :
          /\ Cardinality(ErrorResultsOf(k)) = Cardinality(FailingItemsOf(k))
          /\ Cardinality(DecisionsOf(k)) = Cardinality(SoundItemsOf(k))
          /\ \A i \in ErrorResultsOf(k) : ~policy.results[i].needs_reorder

\* the SKUs of the cycle handled so far whose processing raised
FailedSkus == { k \in 1..Len(cycle.decisions) : cycle.decisions[k].result.raised }

SkuErrors == { k \in 1..Len(cycle.errors) : cycle.errors[k] = "Error processing SKU" }

\* C35: a failure while evaluating or processing one SKU never aborts the pass:
\* run_cycle records one error per failing SKU, goes through every SKU of the
\* inventory before it ends, and processed_skus counts exactly the SKUs handled
\* without exception; batch_evaluate_reorders returns an error result for every
\* failing item and a decision for every other item.
C35_FailuresAreIsolatedPerSku ==
    /\ cycle.i = Len(cycle.decisions)
    /\ Cardinality(SkuErrors) = Cardinality(FailedSkus)
    /\ cycle.processed_skus = Len(cycle.decisions) - Cardinality(FailedSkus)
    /\ cycle.pc = "done" => cycle.i = Len(cycle.inventory)
    /\ BatchReturned => OneResultPerItem

\* a finished cycle whose first SKU failed and whose second SKU was processed
\* and reached the batch action
C35_Witness ==
    /\ cycle.pc = "done"
    /\ Len(cycle.decisions) = 2
    /\ cycle.decisions[1].result.raised
    /\ ~cycle.decisions[2].result.raised
    /\ cycle.processed_skus = 1
    /\ SkusOf(cycle.pending_approvals) = {cycle.inventory[2].sku}

\* a batch call whose first item failed and whose later items were evaluated
C35_BatchExample ==
    /\ BatchReturned
    /\ Len(policy.inventory_items) = 3
    /\ policy.inventory_items[1].on_hand = Missing
    /\ \E i \in 1..3 : "error" \in DOMAIN policy.results[i]
    /\ \E i \in 1..3 : policy.results[i].needs_reorder

\* the days a result is ranked by: its days_until_stockout in tenths, 999 days
\* for a result that carries none
RankedDays(r) ==
    IF "days_until_stockout" \in DOMAIN r /\ r.days_until_stockout # Missing
    THEN r.days_until_stockout
    ELSE 9990

\* C39: batch_evaluate_reorders returns exactly one result per input item (an
\* error result with needs_reorder = false for an item whose evaluation raised);
\* every result with needs_reorder = true precedes every result without it, and
\* within each of the two groups the results are in ascending order of
\* days_until_stockout.
C39_BatchResultsAreRanked ==
    BatchReturned
    => /\ OneResultPerItem
       /\ \A i, j \in 1..Len(policy.results) :
             i < j => /\ policy.results[j].needs_reorder => policy.results[i].needs_reorder
                      /\ policy.results[i].needs_reorder = policy.results[j].needs_reorder
                           => RankedDays(policy.results[i]) <= RankedDays(policy.results[j])

\* a returned batch call of three items in which the sort moved a later item to
\* the front: a result that needs a reorder comes first, an error result is among
\* those that do not, and the first input item is not the first result
C39_Witness ==
    /\ BatchReturned
    /\ Len(policy.results) = 3
    /\ policy.results[1].needs_reorder
    /\ policy.results[2].needs_reorder
    /\ RankedDays(policy.results[1]) < RankedDays(policy.results[2])
    /\ "error" \in DOMAIN policy.results[3]
    /\ policy.inventory_items[1].on_hand = Missing
    /\ policy.inventory_items[3].sku = policy.results[1].sku

(* ------ two processes on one pending-actions file or database ----------- *)
\* The orchestrator stores through its own PendingActionsManager (it imports
\* store_pending_approval) while the webhook process updates: each process runs
\* its calls one after another, the two interleave at the file operations.
MaxOps == 3

\* the token each process works on
TokenOf == [w1 |-> "tok1", w2 |-> "tok2"]

\* a manager call on the SQLite backend: one transaction; commitOk = FALSE is the
\* except branch (database locked), which leaves the table as it was
SqliteCall(p, op, a, status, commitOk) ==
    /\ use_sqlite
    /\ proc[p].pc \in {"idle", "done"}
    /\ calls < MaxOps
    /\ calls' = calls + 1
    /\ LET t == TokenOf[p]
           st == IF op = "store" THEN StorePendingAction(store, TRUE, t, a, now).st
                 ELSE UpdateActionStatus(store, t, status, TRUE)
           wrote == commitOk /\ (op = "store" \/ t \in DOMAIN store)
       IN /\ store' = IF commitOk THEN st ELSE store
          /\ proc' = [proc EXCEPT ![p] =
                        [@ EXCEPT !.pc = "done", !.ep = op, !.tok = t,
                                  !.out = IF wrote THEN st[t].status ELSE @]]
    /\ UNCHANGED <<use_sqlite, now, orders, pageStatus, sheetStatus, recompute, orderFailures, backends, policy, cycle>>

\* JSON backend, first half of either call: with open(json_path, 'r'): data = json.load(f)
JsonLoad(p, op, a, status) ==
    /\ ~use_sqlite
    /\ proc[p].pc \in {"idle", "done"}
    /\ calls < MaxOps
    /\ calls' = calls + 1
    /\ proc' = [proc EXCEPT ![p] =
                  [@ EXCEPT !.pc = "loaded", !.ep = op, !.tok = TokenOf[p],
                            !.act = a, !.status = status, !.data = store]]
    /\ UNCHANGED <<use_sqlite, store, now, orders, pageStatus, sheetStatus, recompute, orderFailures, backends, policy, cycle>>

\* JSON backend, second half: the entry of the token is set in the copy the call
\* loaded and the whole copy is written over the file (lines 134-140, 204-210)
JsonDump(p) ==
    /\ proc[p].pc = "loaded"
    /\ LET w == proc[p]
           t == w.tok
           data == IF w.ep = "store"
                   THEN StorePendingAction(w.data, FALSE, t, w.act, now).st
                   ELSE UpdateActionStatus(w.data, t, w.status, TRUE)
           writes == w.ep = "store" \/ t \in DOMAIN w.data
       IN /\ store' = IF writes THEN data ELSE store
          /\ proc' = [proc EXCEPT ![p] =
                        [w EXCEPT !.pc = "done", !.act = NoAction, !.status = "",
                                  !.data = <<>>,
                                  !.out = IF writes THEN data[t].status ELSE @]]
    /\ UNCHANGED <<use_sqlite, now, orders, pageStatus, sheetStatus, recompute, calls, orderFailures, backends, policy, cycle>>

ConcurrentNext ==
    \/ \E p \in Procs, op \in {"store", "update"}, status \in Terminal, commitOk \in BOOLEAN :
          SqliteCall(p, op, SingleAction("SKU1", "V1", 5, 50, "pg1"), status, commitOk)
    \/ \E p \in Procs, op \in {"store", "update"}, status \in Terminal :
          JsonLoad(p, op, SingleAction("SKU1", "V1", 5, 50, "pg1"), status)
    \/ \E p \in Procs : JsonDump(p)
    \/ Tick(TTL_HOURS)

ConcurrentSpec == Init /\ [][ConcurrentNext]_vars

\* C31 (as claimed): calls of store_pending_action and update_action_status on
\* different tokens do not interfere: under every interleaving of their steps the
\* record of each token shows the last completed write to it, on the JSON backend
\* as well as on the SQLite backend.
C31_WritesToOtherTokensAreKept ==
    \A p \in Procs :
       proc[p].out # ""
       => /\ TokenOf[p] \in DOMAIN store
          /\ store[TokenOf[p]].status = proc[p].out

\* the same on the SQLite backend alone
C31_SqliteKeepsWrites == use_sqlite => C31_WritesToOtherTokensAreKept

(* --------------- callers that do not hold the secret -------------------- *)
\* what the caller of /webhook/status/{token} is told about the action
StatusBody(a) ==
    [NoAction EXCEPT !.sku = a.sku, !.status = a.status, !.expires_at = a.expires_at]

\* get_action_status: the route takes the token alone; 404 when the lookup
\* returns nothing, else token, sku, status and expires_at of the action
GetActionStatus(p, t) ==
    /\ CanCall(p)
    /\ calls' = calls + 1
    /\ \E readOk \in BOOLEAN :
         LET a == GetPendingAction(store, use_sqlite, t, now, readOk)
             w == Step(NewCall("status", t, ""), "get")
         IN proc' = [proc EXCEPT ![p] =
                       IF a = NoAction THEN Done(w, "not_found")
                       ELSE [w EXCEPT !.pc = "done", !.out = "success",
                                      !.act = StatusBody(a)]]
    /\ UNCHANGED <<use_sqlite, store, now, orders, pageStatus, sheetStatus, recompute, orderFailures, backends, policy, cycle>>

\* the store fills and ages while callers without the secret try every route
OutsiderNext ==
    \/ \E d \in TickSteps : Tick(d)
    \/ \E t \in Tokens, a \in ActionInputs : StorePending(t, a)
    \/ \E p \in Procs, t \in Tokens, s \in Secrets \ {WEBHOOK_SECRET} : ApproveCall(p, t, s)
    \/ \E p \in Procs, t \in Tokens, s \in Secrets \ {WEBHOOK_SECRET} : RejectCall(p, t, s)
    \/ \E p \in Procs, t \in Tokens, s \in Secrets \ {WEBHOOK_SECRET} : ApproveBatch(p, t, s)
    \/ \E p \in Procs, t \in Tokens, s \in Secrets \ {WEBHOOK_SECRET} : RejectBatch(p, t, s)
    \/ \E p \in Procs, t \in Tokens : GetActionStatus(p, t)

OutsiderSpec == Init /\ [][OutsiderNext]_vars

\* worker p has answered a request that did not present the configured secret
AnsweredOutsider(p) == proc[p].pc = "done" /\ proc[p].sec # WEBHOOK_SECRET

\* C40 (as claimed): without the correct secret a caller learns nothing about the
\* stored pending actions: on every endpoint two requests that are the same and
\* do not present the configured secret get the same response, whether or not
\* the token is active at the time and whatever the stored action holds.
C40_NoSecretNoInformation ==
    \A p, q \in Procs :
       (/\ AnsweredOutsider(p)
        /\ AnsweredOutsider(q)
        /\ proc[p].ep = proc[q].ep
        /\ proc[p].tok = proc[q].tok
        /\ proc[p].sec = proc[q].sec)
       => /\ proc[p].out = proc[q].out
          /\ proc[p].act = proc[q].act

\* the same for the four approve and reject endpoints alone
C40_ApprovalEndpointsTellNothing ==
    \A p, q \in Procs :
       (/\ AnsweredOutsider(p)
        /\ AnsweredOutsider(q)
        /\ proc[p].ep \in SingleEps \cup BatchEps
        /\ proc[p].ep = proc[q].ep
        /\ proc[p].tok = proc[q].tok
        /\ proc[p].sec = proc[q].sec)
       => /\ proc[p].out = proc[q].out
          /\ proc[p].act = proc[q].act

====
